---- MODULE Spec2Model ----
(***************************************************************************)
(* Model of the christmas-tree particle experience:                        *)
(*   - the Interaction Controller (App: handleHandUpdate and               *)
(*     handleHoverGesture over the React state),                           *)
(*   - the Particle Choreographer (Scene3D: addPhoto, addPhotoToScene and  *)
(*     the per-frame animate callback),                                    *)
(*   - the Gesture Classifier (HandGestureService: initialize, the detect  *)
(*     loop, processLandmarks and the effect's cleanup).                   *)
(* Positions are kept symbolic (which rule produced a target); scales are  *)
(* kept in tenths so that 4.5 is 45 and 0.5 is 5; landmark distances are   *)
(* kept in hundredths so that 0.05 is 5.                                   *)
(***************************************************************************)
EXTENDS Integers, Sequences, FiniteSets

VARIABLES
    state,                   \* App: the React state {mode, text, hand, hoverGesture}
    modeRef,                 \* Scene3D: modeRef.current
    textRef,                 \* Scene3D: textRef.current
    handRef,                 \* Scene3D: handRef.current
    particlesRef,            \* Scene3D: particlesRef.current (sequence of particle ids)
    photoParticlesRef,       \* Scene3D: photoParticlesRef.current
    particleType,            \* type tag of every particle object ever created
    focusedPhotoRef,         \* Scene3D: focusedPhotoRef.current
    defaultPhotoParticleRef, \* Scene3D: defaultPhotoParticleRef.current
    previousModeRef,         \* Scene3D: previousModeRef.current
    previousTextRef,         \* Scene3D: previousTextRef.current
    textPositionsRef,        \* Scene3D: textPositionsRef.current
    target,                  \* targetPosition / targetScale of every particle object
    material,                \* mesh.material of every particle object
    originalMaterial,        \* mesh.userData.originalMaterial of every particle object
    decoding,                \* addPhoto calls awaiting createTextureFromImage
    decodeFailures,          \* addPhoto calls whose catch block has reported a failure
    pc,                      \* scripted run: whose turn it is ("free" outside a script)
    fed,                     \* scripted run: the gestures fed so far
    events,                  \* scripted run: the transitions the frames have run
    observed,                \* observed run: the (mode, text) the latest frame read
    sampled,                 \* sampled run: the (mode, text, hand) the latest frame
                             \* read, and the frames (up to 2) that have ticked
                             \* since the latest publication
    layoutCall,              \* the latest direct call of calculateTextPositions:
                             \* its arguments and the positions it returned
    treeCall,                \* the latest direct calls of calculateTreePosition, at
                             \* most two: their arguments and what they returned
    kinematics,              \* per particle: treePosition, basePosition, velocity
    frames,                  \* frames of a run whose length is capped
    met,                     \* since the controller's formation last became FOCUS,
                             \* or TEXT with its present text: has the focus been a
                             \* member of the photo collection, has the cache held
                             \* the layout of the text
    twin,                    \* a second run fed the same gestures with other hand
                             \* positions: its App state, refs and group rotation
    motion,                  \* drift run: basePosition, velocity, mesh.rotation,
                             \* rotationVelocity and targetRotation of the first
                             \* particle, as numbers
    camState,                \* the camera-only App: its React state {mode, text, hand}
    isActive,                \* HandGestureService: the effect's isActive flag
    initStep,                \* HandGestureService: where initialize is
    handLandmarkerRef,       \* HandGestureService: handLandmarkerRef.current
    videoRef,                \* HandGestureService: videoRef.current is not null
    stream,                  \* the MediaStream getUserMedia returned, and its tracks
    srcObject,               \* videoRef.current.srcObject is the stream
    rafPending,              \* a detect callback is scheduled (animationFrameRef)
    currentGesture,          \* HandGestureService: the React state currentGesture
    lastStep,                \* what the service's latest step did and published
    remembered               \* one earlier classification: the frame, its result and
                             \* whether another frame has been classified since

ctlVars == <<state, modeRef, textRef, handRef>>
sceneVars == <<particlesRef, photoParticlesRef, particleType, focusedPhotoRef,
               defaultPhotoParticleRef, previousModeRef, previousTextRef,
               textPositionsRef, target, material, originalMaterial>>
uploadVars == <<decoding, decodeFailures>>
scriptVars == <<pc, fed, events, observed, sampled, layoutCall, treeCall,
          kinematics, frames, met, twin, motion>>
svcVars == <<isActive, initStep, handLandmarkerRef, videoRef, stream, srcObject,
             rafPending, currentGesture, lastStep, remembered>>
vars == <<state, modeRef, textRef, handRef, particlesRef, photoParticlesRef,
          particleType, focusedPhotoRef, defaultPhotoParticleRef, previousModeRef,
          previousTextRef, textPositionsRef, target, material, originalMaterial,
          observed, sampled, layoutCall, treeCall,
          kinematics, frames, met, twin, motion,
          decoding,
          decodeFailures, pc, fed, events, camState, isActive, initStep,
          handLandmarkerRef, videoRef, stream, srcObject, rafPending, currentGesture,
          lastStep, remembered>>

----------------------------------------------------------------------------
(* Bounds of the model *)

\* ordinary particles created at construction (PARTICLE_CONFIG.mainParticleCount
\* is 1500 in the program)
NumMain == 2
\* addPhoto calls of one run: those decoding, those added and those failed
MaxUploads == 2
\* pixels the rasterisation of a non-empty text samples
MaxPixels == 2
\* inputs of a scripted run
MaxScript == 5
\* the largest totalCount calculateTreePosition is called with
MaxCount == 5
\* frames of a run whose length is capped
MaxFrames == 3
\* camera signals published to the two controllers
MaxSignals == 3

----------------------------------------------------------------------------
(* Types and configuration *)

ExperienceMode == {"TREE", "SCATTER", "FOCUS", "TEXT"}

GestureType == {"PINCH", "FIST", "OPEN", "ONE", "TWO", "THREE", "FOUR", "FIVE", "NONE"}

\* the value null of hoverGesture
NullGesture == "null"

\* the value null of a particle reference
NullParticle == 0

\* PARTICLE_CONFIG.textMap: the gestures that have an entry, and their texts
\* ("圣诞快乐", "大家开心", "新的开始")
textMap == [TWO |-> "MerryChristmas", THREE |-> "EveryoneHappy", FOUR |-> "NewBeginning"]

\* hand positions the camera publishes (tenths)
Center == [x |-> 5, y |-> 5]
Positions == {Center, [x |-> 2, y |-> 7]}

\* FOCUS_MODE_CONFIG.focusScale, in tenths
focusScale == 45
\* FOCUS_MODE_CONFIG.backgroundScaleMultiplier, in tenths
backgroundScaleMultiplier == 5
\* the scale of a particle that forms the text, in tenths
textScale == 5
\* the scale 1, in tenths
unitScale == 10

Range(s) == {s[i] : i \in 1..Len(s)}

\* a filter that removes nothing
FilterOut_KeepsAll(s, removed) == s

\* Array.prototype.filter with the predicate p !== removed
FilterOut(s, removed) == SelectSeq(s, LAMBDA p : p # removed)

\* the material the particle p is constructed with, the shared highlight
\* material of the text formation, and a userData without originalMaterial
OwnMaterial(p) == <<"own", p>>
textMat == <<"textMat", 0>>
NoMaterial == <<"undefined", 0>>

NoPixel == <<"", 0>>

\* a symbolic position: the rule that produced it and, for a text slot, the pixel
Pos(rule) == [rule |-> rule, px |-> NoPixel]

----------------------------------------------------------------------------
(* Interaction Controller (App) *)

\* PARTICLE_CONFIG.textMap[gesture] || ''
TextOf(gesture) ==
    IF gesture \in DOMAIN textMap /\ textMap[gesture] # "" THEN textMap[gesture] ELSE ""

\* a switch that lacks the cases ONE and FIVE
getModeAndTextFromGesture_NoOneFive(gesture, currentMode, currentText) ==
    CASE gesture = "PINCH" -> [newMode |-> "FOCUS", newText |-> currentText]
      [] gesture = "FIST" -> [newMode |-> "TREE", newText |-> currentText]
      [] gesture = "OPEN" -> [newMode |-> "SCATTER", newText |-> currentText]
      [] gesture \in {"TWO", "THREE", "FOUR"} ->
            [newMode |-> "TEXT", newText |-> TextOf(gesture)]
      [] OTHER -> [newMode |-> currentMode, newText |-> currentText]

getModeAndTextFromGesture(gesture, currentMode, currentText) ==
    CASE gesture = "PINCH" -> [newMode |-> "FOCUS", newText |-> currentText]
      [] gesture = "FIST" -> [newMode |-> "TREE", newText |-> currentText]
      [] gesture = "OPEN" -> [newMode |-> "SCATTER", newText |-> currentText]
      [] gesture \in {"ONE", "TWO", "THREE", "FOUR", "FIVE"} ->
            [newMode |-> "TEXT", newText |-> TextOf(gesture)]
      [] OTHER -> [newMode |-> currentMode, newText |-> currentText]

\* a render that stores the formation and the text but keeps the hand it had
Render_KeepsHand(next) ==
    /\ modeRef' = next.mode
    /\ textRef' = next.text
    /\ handRef' = handRef

\* Scene3D is rendered with the props mode, text and hand of the new state and
\* stores them in its refs
Render(next) ==
    /\ modeRef' = next.mode
    /\ textRef' = next.text
    /\ handRef' = next.hand

setState(next) ==
    /\ state' = next
    /\ Render(next)

\* an updater that maps the gesture stored in the state, not the incoming one
HandUpdateResult_StoredGesture(prev, handData) ==
    LET effectiveGesture ==
            IF prev.hand.gesture # "NONE" THEN prev.hand.gesture
            ELSE IF prev.hoverGesture # NullGesture THEN prev.hoverGesture ELSE "NONE"
        r == getModeAndTextFromGesture(effectiveGesture, prev.mode, prev.text)
    IN  IF \/ handData.gesture # prev.hand.gesture
           \/ handData.position.x # prev.hand.position.x
           \/ handData.position.y # prev.hand.position.y
           \/ r.newMode # prev.mode
           \/ r.newText # prev.text
        THEN [prev EXCEPT !.hand = handData, !.mode = r.newMode, !.text = r.newText]
        ELSE prev

\* the state handleHandUpdate's updater returns
HandUpdateResult(prev, handData) ==
    LET effectiveGesture ==
            IF handData.gesture # "NONE" THEN handData.gesture
            ELSE IF prev.hoverGesture # NullGesture THEN prev.hoverGesture ELSE "NONE"
        r == getModeAndTextFromGesture(effectiveGesture, prev.mode, prev.text)
    IN  IF \/ handData.gesture # prev.hand.gesture
           \/ handData.position.x # prev.hand.position.x
           \/ handData.position.y # prev.hand.position.y
           \/ r.newMode # prev.mode
           \/ r.newText # prev.text
        THEN [prev EXCEPT !.hand = handData, !.mode = r.newMode, !.text = r.newText]
        ELSE prev

\* an updater that lets the hover gesture win over the camera gesture
HoverGestureResult_HoverFirst(prev, gesture) ==
    IF gesture = prev.hoverGesture THEN prev
    ELSE LET effectiveGesture ==
                 IF gesture # NullGesture /\ gesture # "NONE" THEN gesture
                 ELSE prev.hand.gesture
             r == getModeAndTextFromGesture(effectiveGesture, prev.mode, prev.text)
         IN  [prev EXCEPT !.hoverGesture = gesture, !.mode = r.newMode, !.text = r.newText]

\* the state handleHoverGesture's updater returns
HoverGestureResult(prev, gesture) ==
    IF gesture = prev.hoverGesture THEN prev
    ELSE LET effectiveGesture ==
                 IF prev.hand.gesture # "NONE" THEN prev.hand.gesture
                 ELSE IF gesture # NullGesture THEN gesture ELSE "NONE"
             r == getModeAndTextFromGesture(effectiveGesture, prev.mode, prev.text)
         IN  [prev EXCEPT !.hoverGesture = gesture, !.mode = r.newMode, !.text = r.newText]

handleHandUpdate(handData) ==
    /\ setState(HandUpdateResult(state, handData))
    /\ UNCHANGED <<sceneVars, uploadVars>>

handleHoverGesture(gesture) ==
    /\ setState(HoverGestureResult(state, gesture))
    /\ UNCHANGED <<sceneVars, uploadVars>>

\* a switch of the camera-only App whose PINCH case clears the text
CameraOnlySwitch_ClearsText(gesture, prevMode, prevText) ==
    CASE gesture = "PINCH" -> [newMode |-> "FOCUS", newText |-> ""]
      [] gesture = "FIST" -> [newMode |-> "TREE", newText |-> prevText]
      [] gesture = "OPEN" -> [newMode |-> "SCATTER", newText |-> prevText]
      [] gesture \in {"ONE", "TWO", "THREE", "FOUR", "FIVE"} ->
            [newMode |-> "TEXT", newText |-> TextOf(gesture)]
      [] OTHER -> [newMode |-> prevMode, newText |-> prevText]

\* The camera-only App (no hover channel): the gesture is mapped only when it
\* differs from the stored one
CameraOnlySwitch(gesture, prevMode, prevText) ==
    CASE gesture = "PINCH" -> [newMode |-> "FOCUS", newText |-> prevText]
      [] gesture = "FIST" -> [newMode |-> "TREE", newText |-> prevText]
      [] gesture = "OPEN" -> [newMode |-> "SCATTER", newText |-> prevText]
      [] gesture \in {"ONE", "TWO", "THREE", "FOUR", "FIVE"} ->
            [newMode |-> "TEXT", newText |-> TextOf(gesture)]
      [] OTHER -> [newMode |-> prevMode, newText |-> prevText]

CameraOnlyResult(prev, handData) ==
    LET mapped == IF handData.gesture # prev.hand.gesture
                  THEN CameraOnlySwitch(handData.gesture, prev.mode, prev.text)
                  ELSE [newMode |-> prev.mode, newText |-> prev.text]
    IN  IF \/ handData.gesture # prev.hand.gesture
           \/ handData.position.x # prev.hand.position.x
           \/ handData.position.y # prev.hand.position.y
           \/ mapped.newMode # prev.mode
           \/ mapped.newText # prev.text
        THEN [prev EXCEPT !.hand = handData, !.mode = mapped.newMode,
                          !.text = mapped.newText]
        ELSE prev

handleHandUpdateCameraOnly(handData) ==
    camState' = CameraOnlyResult(camState, handData)

----------------------------------------------------------------------------
(* Gesture Classifier (HandGestureService): processLandmarks *)

\* GESTURE_CONFIG.pinchThreshold, in hundredths
pinchThreshold == 5
\* GESTURE_CONFIG.fistThreshold, in hundredths
fistThreshold == 25
\* GESTURE_CONFIG.openThreshold, in hundredths
openThreshold == 40

HAND_LANDMARKS ==
    [WRIST |-> 0, THUMB_TIP |-> 4, INDEX_TIP |-> 8, MIDDLE_TIP |-> 12,
     RING_TIP |-> 16, PINKY_TIP |-> 20, PALM_CENTER |-> 9]

\* countExtendedFingers: the tip and the middle joint of the four fingers
fingerIndices ==
    <<[tip |-> 8, pip |-> 6], [tip |-> 12, pip |-> 10],
      [tip |-> 16, pip |-> 14], [tip |-> 20, pip |-> 18]>>

\* the pairs of landmarks whose 2D distance the classifier measures
MeasuredPairs ==
    {<<4, 8>>, <<4, 17>>, <<3, 17>>}
        \cup {<<fingerIndices[k].tip, 0>> : k \in 1..4}
        \cup {<<fingerIndices[k].pip, 0>> : k \in 1..4}

\* the position {x: 0, y: 0}
Origin == [x |-> 0, y |-> 0]

\* a finger of a HandFrame: the distances of its tip and of its middle joint to
\* the wrist; curled and extended, far from, midway to and near the camera
FingerPostures ==
    {[tip |-> 22, pip |-> 24], [tip |-> 30, pip |-> 30], [tip |-> 50, pip |-> 48],
     [tip |-> 20, pip |-> 15], [tip |-> 32, pip |-> 25], [tip |-> 60, pip |-> 40]}

\* the thumb of a HandFrame: the distances of its tip and of its joint to the
\* base of the little finger; folded and extended
ThumbPostures == {[tip |-> 10, ip |-> 12], [tip |-> 15, ip |-> 11]}

\* the distance between thumb tip and index tip: below and at the threshold
PinchDistances == {4, 5}

\* a HandFrame, given by the 2D distances the classifier measures and by the
\* palm-center landmark
HandFrame(pinch, thumb, fingers, palm) ==
    [distance |->
        [pr \in MeasuredPairs |->
            IF pr = <<4, 8>> THEN pinch
            ELSE IF pr = <<4, 17>> THEN thumb.tip
            ELSE IF pr = <<3, 17>> THEN thumb.ip
            ELSE LET k == CHOOSE k \in 1..4 :
                              pr[1] \in {fingerIndices[k].tip, fingerIndices[k].pip}
                 IN  IF pr[1] = fingerIndices[k].tip THEN fingers[k].tip
                     ELSE fingers[k].pip],
     palmCenter |-> palm]

HandFrames ==
    {HandFrame(d, t, f, p) : d \in PinchDistances, t \in ThumbPostures,
                             f \in [1..4 -> FingerPostures], p \in Positions}

\* no frame
NoFrame == [distance |-> [pr \in MeasuredPairs |-> 0], palmCenter |-> Origin]

\* no HandData
NoSignal == [gesture |-> NullGesture, position |-> Origin]

calculateDistance2D(landmarks, point1, point2) == landmarks.distance[<<point1, point2>>]

\* the tip is farther than the joint (thumb), farther than 1.2 times the joint
\* (the other fingers)
countExtendedFingers(landmarks) ==
    LET wrist == HAND_LANDMARKS.WRIST
        thumbTip == HAND_LANDMARKS.THUMB_TIP
        thumb == IF calculateDistance2D(landmarks, thumbTip, 17)
                        > calculateDistance2D(landmarks, 3, 17)
                 THEN 1 ELSE 0
        others == {k \in 1..4 :
                      10 * calculateDistance2D(landmarks, fingerIndices[k].tip, wrist)
                          > 12 * calculateDistance2D(landmarks, fingerIndices[k].pip, wrist)}
    IN  thumb + Cardinality(others)

pinchDistanceOf(landmarks) ==
    calculateDistance2D(landmarks, HAND_LANDMARKS.THUMB_TIP, HAND_LANDMARKS.INDEX_TIP)

\* four times avgDistanceToWrist: the sum over the four fingertips
sumDistanceToWrist(landmarks) ==
    calculateDistance2D(landmarks, HAND_LANDMARKS.INDEX_TIP, HAND_LANDMARKS.WRIST)
        + calculateDistance2D(landmarks, HAND_LANDMARKS.MIDDLE_TIP, HAND_LANDMARKS.WRIST)
        + calculateDistance2D(landmarks, HAND_LANDMARKS.RING_TIP, HAND_LANDMARKS.WRIST)
        + calculateDistance2D(landmarks, HAND_LANDMARKS.PINKY_TIP, HAND_LANDMARKS.WRIST)

\* a classifier that keeps PINCH, once shown, up to a wider threshold
processLandmarks_Hysteresis(landmarks) ==
    LET extendedFingers == countExtendedFingers(landmarks)
        sum == sumDistanceToWrist(landmarks)
        threshold == IF currentGesture = "PINCH" THEN pinchThreshold + 1
                     ELSE pinchThreshold
        gesture ==
            IF pinchDistanceOf(landmarks) < threshold THEN "PINCH"
            ELSE IF extendedFingers = 0
                 THEN IF sum < 4 * fistThreshold THEN "FIST" ELSE "NONE"
                 ELSE CASE extendedFingers = 2 -> "TWO"
                        [] extendedFingers = 3 -> "THREE"
                        [] extendedFingers = 4 -> "FOUR"
                        [] OTHER -> IF sum > 4 * openThreshold \/ extendedFingers >= 5
                                    THEN "OPEN" ELSE "NONE"
    IN  [gesture |-> gesture, position |-> landmarks.palmCenter]

\* a classifier that tests the open hand whatever the finger count is
processLandmarks_FlatOpen(landmarks) ==
    LET extendedFingers == countExtendedFingers(landmarks)
        sum == sumDistanceToWrist(landmarks)
        gesture ==
            IF pinchDistanceOf(landmarks) < pinchThreshold THEN "PINCH"
            ELSE IF extendedFingers = 0 /\ sum < 4 * fistThreshold THEN "FIST"
            ELSE CASE extendedFingers = 2 -> "TWO"
                   [] extendedFingers = 3 -> "THREE"
                   [] extendedFingers = 4 -> "FOUR"
                   [] OTHER -> IF sum > 4 * openThreshold \/ extendedFingers >= 5
                               THEN "OPEN" ELSE "NONE"
    IN  [gesture |-> gesture, position |-> landmarks.palmCenter]

\* the HandData processLandmarks returns
processLandmarks(landmarks) ==
    LET extendedFingers == countExtendedFingers(landmarks)
        sum == sumDistanceToWrist(landmarks)
        gesture ==
            IF pinchDistanceOf(landmarks) < pinchThreshold THEN "PINCH"
            ELSE IF extendedFingers = 0
                 THEN IF sum < 4 * fistThreshold THEN "FIST" ELSE "NONE"
                 ELSE CASE extendedFingers = 2 -> "TWO"
                        [] extendedFingers = 3 -> "THREE"
                        [] extendedFingers = 4 -> "FOUR"
                        [] OTHER -> IF sum > 4 * openThreshold \/ extendedFingers >= 5
                                    THEN "OPEN" ELSE "NONE"
    IN  [gesture |-> gesture, position |-> landmarks.palmCenter]

\* what the service's latest step did: its outcome, the frame it classified, the
\* HandData it produced, whether it called onHandUpdate and whether the effect
\* was active then
Logged(outcome, frame, handData, published) ==
    [outcome |-> outcome, frame |-> frame, handData |-> handData,
     published |-> published, active |-> isActive]

\* one call of processLandmarks, on the frame the camera captured;
\* setCurrentGesture stores the gesture
Classify ==
    /\ lastStep.outcome = "captured"
    /\ currentGesture' = processLandmarks(lastStep.frame).gesture
    /\ lastStep' = Logged("classified", lastStep.frame,
                          processLandmarks(lastStep.frame), FALSE)
    /\ UNCHANGED <<ctlVars, sceneVars, uploadVars, scriptVars, camState, isActive,
                   initStep, handLandmarkerRef, videoRef, stream, srcObject,
                   rafPending, remembered>>

----------------------------------------------------------------------------
(* Gesture Classifier (HandGestureService): the effect *)

\* the prop onHandUpdate is App's handleHandUpdate
onHandUpdate(handData) ==
    /\ handleHandUpdate(handData)
    /\ UNCHANGED <<scriptVars, camState>>

\* a step of the service that does not call onHandUpdate
NothingPublished == UNCHANGED <<ctlVars, sceneVars, uploadVars, scriptVars, camState>>

\* initialize, first await: FilesetResolver.forVisionTasks resolves
VisionLoaded ==
    /\ initStep = "vision"
    /\ initStep' = "landmarker"
    /\ NothingPublished
    /\ UNCHANGED <<isActive, handLandmarkerRef, videoRef, stream, srcObject,
                   rafPending, currentGesture, lastStep, remembered>>

\* initialize, second await: HandLandmarker.createFromOptions resolves and the
\* landmarker is stored
LandmarkerCreated ==
    /\ initStep = "landmarker"
    /\ handLandmarkerRef' = "open"
    /\ initStep' = "camera"
    /\ NothingPublished
    /\ UNCHANGED <<isActive, videoRef, stream, srcObject, rafPending,
                   currentGesture, lastStep, remembered>>

\* initialize, third await: getUserMedia resolves; the stream is attached and
\* the loadeddata listener registered only if the video element is there and
\* the effect is active
StreamAcquired ==
    /\ initStep = "camera"
    /\ stream' = "live"
    /\ IF videoRef /\ isActive
       THEN srcObject' = TRUE /\ initStep' = "loadeddata"
       ELSE srcObject' = srcObject /\ initStep' = "done"
    /\ NothingPublished
    /\ UNCHANGED <<isActive, handLandmarkerRef, videoRef, rafPending,
                   currentGesture, lastStep, remembered>>

\* a catch block that publishes a fist
InitFailureSignal_Fist == [gesture |-> "FIST", position |-> Origin]

\* the signal of the catch block of initialize
InitFailureSignal == [gesture |-> "NONE", position |-> Origin]

\* initialize: one of the three awaits rejects (the model or the camera is
\* not available); the catch block reports and calls onHandUpdate
InitializeFailed ==
    /\ initStep \in {"vision", "landmarker", "camera"}
    /\ initStep' = "failed"
    /\ onHandUpdate(InitFailureSignal)
    /\ lastStep' = Logged("initFailed", NoFrame, InitFailureSignal, TRUE)
    /\ UNCHANGED <<isActive, handLandmarkerRef, videoRef, stream, srcObject,
                   rafPending, currentGesture, remembered>>

\* a no-hand branch that keeps the last known position
NoHandSignal_LastPosition == [gesture |-> "NONE", position |-> state.hand.position]

\* the signal of the branch of detect that found no landmarks
NoHandSignal == [gesture |-> "NONE", position |-> Center]

\* the frames the camera delivers while the service runs: a pinch, a fist, an
\* open hand and two fingers
CameraFrames ==
    LET all(posture) == [k \in 1..4 |-> posture]
        folded == [tip |-> 10, ip |-> 12]
        out == [tip |-> 15, ip |-> 11]
    IN  {HandFrame(4, folded, all([tip |-> 22, pip |-> 24]), Center),
         HandFrame(5, folded, all([tip |-> 22, pip |-> 24]), [x |-> 2, y |-> 7]),
         HandFrame(5, out, all([tip |-> 60, pip |-> 40]), Center),
         HandFrame(5, folded,
                   [k \in 1..4 |-> IF k <= 2 THEN [tip |-> 32, pip |-> 25]
                                   ELSE [tip |-> 30, pip |-> 30]],
                   [x |-> 2, y |-> 7])}

\* what one run of detect meets: the video is not ready, detectForVideo throws,
\* it finds no hand, or it returns the landmarks of a hand
DetectOutcomes ==
    {[kind |-> k, frame |-> NoFrame] : k \in {"notReady", "throws", "noHand"}}
        \cup {[kind |-> "hand", frame |-> f] : f \in CameraFrames}

\* one run of detect
detect(outcome) ==
    IF ~isActive \/ ~videoRef \/ handLandmarkerRef = "null"
    THEN /\ rafPending' = FALSE
         /\ NothingPublished
         /\ UNCHANGED <<currentGesture, lastStep, remembered>>
    ELSE /\ rafPending' = TRUE
         /\ CASE outcome.kind = "notReady" ->
                    /\ NothingPublished
                    /\ lastStep' = Logged("notReady", NoFrame, NoSignal, FALSE)
                    /\ UNCHANGED <<currentGesture, remembered>>
              [] outcome.kind = "throws" ->
                    /\ NothingPublished
                    /\ lastStep' = Logged("throws", NoFrame, NoSignal, FALSE)
                    /\ UNCHANGED <<currentGesture, remembered>>
              [] outcome.kind = "noHand" ->
                    /\ onHandUpdate(NoHandSignal)
                    /\ lastStep' = Logged("noHand", NoFrame, NoHandSignal, TRUE)
                    /\ UNCHANGED <<currentGesture, remembered>>
              [] outcome.kind = "hand" ->
                    LET handData == processLandmarks(outcome.frame)
                    IN  /\ currentGesture' = handData.gesture
                        /\ onHandUpdate(handData)
                        /\ lastStep' = Logged("hand", outcome.frame, handData, TRUE)
                        /\ remembered' \in
                               {[frame |-> outcome.frame, handData |-> handData,
                                 between |-> FALSE],
                                [remembered EXCEPT !.between =
                                    @ \/ (remembered.frame # NoFrame
                                             /\ outcome.frame # remembered.frame)]}

\* the loadeddata listener: it plays the video and starts the detection, whose
\* first run of detect is part of the same call
LoadedData ==
    /\ initStep = "loadeddata"
    /\ initStep' = "done"
    /\ IF videoRef /\ isActive
       THEN \E outcome \in DetectOutcomes : detect(outcome)
       ELSE /\ NothingPublished
            /\ UNCHANGED <<rafPending, currentGesture, lastStep, remembered>>
    /\ UNCHANGED <<isActive, handLandmarkerRef, videoRef, stream, srcObject>>

\* the callback requestAnimationFrame scheduled runs detect
AnimationFrame ==
    /\ rafPending
    /\ \E outcome \in DetectOutcomes : detect(outcome)
    /\ UNCHANGED <<isActive, initStep, handLandmarkerRef, videoRef, stream, srcObject>>

\* the effect's cleanup: on a re-run of the effect the video element is still
\* there; on an unmount its ref has been detached before the cleanup runs
cleanup ==
    \E unmount \in BOOLEAN :
        /\ isActive
        /\ isActive' = FALSE
        /\ rafPending' = FALSE
        /\ handLandmarkerRef' = IF handLandmarkerRef # "null" THEN "closed"
                                ELSE handLandmarkerRef
        /\ videoRef' = (videoRef /\ ~unmount)
        /\ stream' = IF videoRef' /\ srcObject THEN "stopped" ELSE stream
        /\ NothingPublished
        /\ UNCHANGED <<initStep, srcObject, currentGesture, lastStep, remembered>>

----------------------------------------------------------------------------
(* geometryCalculator: the spiral cone of the TREE formation. Lengths are   *)
(* in hundredths, the normalised index t in thousandths, angles in          *)
(* thousandths of a half turn.                                              *)

\* TREE_MODE_CONFIG.heightRange.min and .max, maxRadius, spiralDensity (50 pi)
heightRangeMin == -1500

heightRangeMax == 1500

maxRadius == 1500

spiralDensity == 50

\* a cone whose radius grows with the index
calculateTreePosition_Widening(index, totalCount) ==
    LET t == (index * 1000) \div totalCount
    IN  [y |-> heightRangeMin + (t * (heightRangeMax - heightRangeMin)) \div 1000,
         radius |-> (maxRadius * t) \div 1000,
         angle |-> t * spiralDensity]

\* calculateTreePosition(index, totalCount), in cylindrical coordinates: the
\* returned vector is (radius cos(angle), y, radius sin(angle)), at distance
\* radius from the axis of the cone
calculateTreePosition(index, totalCount) ==
    LET t == (index * 1000) \div totalCount
    IN  [y |-> heightRangeMin + (t * (heightRangeMax - heightRangeMin)) \div 1000,
         radius |-> (maxRadius * (1000 - t)) \div 1000,
         angle |-> t * spiralDensity]

----------------------------------------------------------------------------
(* Initial state: App's useState and Scene3D's construction effect, and  *)
(* HandGestureService before its effect's first await                     *)

InitialAppState ==
    [mode |-> "TREE", text |-> "",
     hand |-> [gesture |-> "NONE", position |-> Center],
     hoverGesture |-> NullGesture]

InitialCameraOnlyState ==
    [mode |-> "TREE", text |-> "", hand |-> [gesture |-> "NONE", position |-> Center]]

\* the numbers the construction gives particle i: treePosition from
\* calculateTreePosition (the loop index for an ordinary particle, a drawn
\* index for a photo), basePosition from calculateScatterPosition and velocity
\* from calculateRandomVelocity (hundredths)
InitialKinematics(i) ==
    [treePosition |-> calculateTreePosition(IF i <= NumMain THEN i - 1 ELSE NumMain \div 2,
                                            NumMain),
     basePosition |-> [x |-> 800 + 100 * i, y |-> 0 - 300 * i, z |-> 40 * i],
     velocity |-> [x |-> 5 - i, y |-> i - 2, z |-> 3]]

\* the second run starts as the first does
InitialTwin ==
    [state |-> InitialAppState, modeRef |-> "TREE", textRef |-> "",
     handRef |-> InitialAppState.hand,
     rotation |-> [x |-> 0, y |-> 0], twinRotation |-> [x |-> 0, y |-> 0],
     framed |-> FALSE]

\* the type tag the construction loop gives the ordinary particle i: this run's
\* draws make every second one a DECORATION
InitialType(i) == IF i % 2 = 0 THEN "DECORATION" ELSE "CANDY_CANE"

\* the placeholder photo is created right after the NumMain ordinary particles
PlaceholderId == NumMain + 1

InitProgram ==
    /\ state = InitialAppState
    /\ modeRef = "TREE"
    /\ textRef = ""
    /\ handRef = InitialAppState.hand
    /\ particlesRef = [i \in 1..(NumMain + 1) |-> i]
    /\ photoParticlesRef = <<PlaceholderId>>
    /\ particleType = [i \in 1..(NumMain + 1) |->
                           IF i = PlaceholderId THEN "PHOTO" ELSE InitialType(i)]
    /\ focusedPhotoRef = NullParticle
    /\ defaultPhotoParticleRef = PlaceholderId
    /\ previousModeRef = "TREE"
    /\ previousTextRef = ""
    /\ textPositionsRef = <<>>
    /\ target = [i \in 1..(NumMain + 1) |-> [position |-> Pos("base"), scale |-> unitScale]]
    /\ material = [i \in 1..(NumMain + 1) |-> OwnMaterial(i)]
    /\ originalMaterial = [i \in 1..(NumMain + 1) |-> NoMaterial]
    /\ observed = [mode |-> "TREE", text |-> ""]
    /\ sampled = [mode |-> "TREE", text |-> "", hand |-> InitialAppState.hand,
                  run |-> 0]
    /\ layoutCall = [text |-> "", particleCount |-> 0, positions |-> <<>>,
                     called |-> FALSE]
    /\ treeCall = <<>>
    /\ kinematics = [i \in 1..(NumMain + 1) |-> InitialKinematics(i)]
    /\ frames = 0
    /\ met = [focus |-> FALSE, text |-> FALSE]
    /\ twin = InitialTwin
    /\ decoding = 0
    /\ decodeFailures = 0
    /\ fed = <<>>
    /\ events = <<>>
    /\ camState = InitialCameraOnlyState
    /\ isActive = TRUE
    /\ initStep = "vision"
    /\ handLandmarkerRef = "null"
    /\ videoRef = TRUE
    /\ stream = "none"
    /\ srcObject = FALSE
    /\ rafPending = FALSE
    /\ currentGesture = "NONE"
    /\ remembered = [frame |-> NoFrame, handData |-> NoSignal, between |-> FALSE]

\* a vector or an Euler triple
Vec(x, y, z) == [x |-> x, y |-> y, z |-> z]

\* the numbers the construction loop gives the first particle in this run:
\* basePosition from calculateScatterPosition (hundredths), velocity from
\* calculateRandomVelocity (hundredths per frame), rotationVelocity from
\* calculateRandomRotationVelocity (ten-thousandths of a radian per frame), a
\* mesh.rotation and a targetRotation of zero
InitialMotion ==
    [basePosition |-> Vec(2000, 0, 0), velocity |-> Vec(5, 0, 0),
     rotation |-> Vec(0, 0, 0), rotationVelocity |-> Vec(200, 0, 37),
     targetRotation |-> Vec(0, 0, 0)]

\* the service has taken no step
NoStep ==
    [outcome |-> "none", frame |-> NoFrame, handData |-> NoSignal,
     published |-> FALSE, active |-> TRUE]

Init == InitProgram /\ pc = "free" /\ lastStep = NoStep /\ motion = InitialMotion

----------------------------------------------------------------------------
(* Specification of the controller alone *)

\* the gesture service publishes one signal to the hover-aware App and to the
\* camera-only App; the legend publishes hover gestures to the hover-aware App
PublishHand ==
    \E g \in GestureType, p \in Positions :
        /\ handleHandUpdate([gesture |-> g, position |-> p])
        /\ handleHandUpdateCameraOnly([gesture |-> g, position |-> p])
        /\ UNCHANGED <<scriptVars, svcVars>>

PublishHover ==
    \E g \in GestureType \cup {NullGesture} :
        /\ handleHoverGesture(g)
        /\ UNCHANGED <<scriptVars, camState, svcVars>>

NextCtl == PublishHand \/ PublishHover

SpecCtl == Init /\ [][NextCtl]_vars

----------------------------------------------------------------------------
(* Particle Choreographer (Scene3D): photo insertion *)

\* an insertion that puts the new particle at the front of the main collection
addPhotoToScene_Prepends(particles, photoParticles, isDefault) ==
    LET particle == Cardinality(DOMAIN particleType) + 1
    IN  /\ particleType' = [i \in DOMAIN particleType \cup {particle} |->
                               IF i = particle THEN "PHOTO" ELSE particleType[i]]
        /\ target' = [i \in DOMAIN target \cup {particle} |->
                         IF i = particle
                         THEN [position |-> Pos("base"), scale |-> unitScale]
                         ELSE target[i]]
        /\ material' = [i \in DOMAIN material \cup {particle} |->
                           IF i = particle THEN OwnMaterial(i) ELSE material[i]]
        /\ originalMaterial' = [i \in DOMAIN originalMaterial \cup {particle} |->
                                   IF i = particle THEN NoMaterial
                                   ELSE originalMaterial[i]]
        /\ defaultPhotoParticleRef' = IF isDefault THEN particle ELSE NullParticle
        /\ particlesRef' = <<particle>> \o particles
        /\ photoParticlesRef' = Append(photoParticles, particle)

\* an insertion that appends to the main collection only
addPhotoToScene_MainOnly(particles, photoParticles, isDefault) ==
    LET particle == Cardinality(DOMAIN particleType) + 1
    IN  /\ particleType' = [i \in DOMAIN particleType \cup {particle} |->
                               IF i = particle THEN "PHOTO" ELSE particleType[i]]
        /\ target' = [i \in DOMAIN target \cup {particle} |->
                         IF i = particle
                         THEN [position |-> Pos("base"), scale |-> unitScale]
                         ELSE target[i]]
        /\ material' = [i \in DOMAIN material \cup {particle} |->
                           IF i = particle THEN OwnMaterial(i) ELSE material[i]]
        /\ originalMaterial' = [i \in DOMAIN originalMaterial \cup {particle} |->
                                   IF i = particle THEN NoMaterial
                                   ELSE originalMaterial[i]]
        /\ defaultPhotoParticleRef' = IF isDefault THEN particle ELSE NullParticle
        /\ particlesRef' = Append(particles, particle)
        /\ photoParticlesRef' = photoParticles

\* addPhotoToScene: the new PHOTO particle is constructed, then appended to the
\* main and to the photo collection
addPhotoToScene(particles, photoParticles, isDefault) ==
    LET particle == Cardinality(DOMAIN particleType) + 1
    IN  /\ particleType' = [i \in DOMAIN particleType \cup {particle} |->
                               IF i = particle THEN "PHOTO" ELSE particleType[i]]
        /\ target' = [i \in DOMAIN target \cup {particle} |->
                         IF i = particle
                         THEN [position |-> Pos("base"), scale |-> unitScale]
                         ELSE target[i]]
        /\ material' = [i \in DOMAIN material \cup {particle} |->
                           IF i = particle THEN OwnMaterial(i) ELSE material[i]]
        /\ originalMaterial' = [i \in DOMAIN originalMaterial \cup {particle} |->
                                   IF i = particle THEN NoMaterial
                                   ELSE originalMaterial[i]]
        /\ defaultPhotoParticleRef' = IF isDefault THEN particle ELSE NullParticle
        /\ particlesRef' = Append(particles, particle)
        /\ photoParticlesRef' = Append(photoParticles, particle)

\* the photos addPhoto has added so far
PhotosAdded == Cardinality(DOMAIN particleType) - (NumMain + 1)

\* addPhoto up to its await: createTextureFromImage starts decoding
addPhoto ==
    /\ decoding + PhotosAdded + decodeFailures < MaxUploads
    /\ decoding' = decoding + 1
    /\ UNCHANGED <<ctlVars, sceneVars, camState, svcVars, decodeFailures>>

\* a completion that removes the placeholder and returns before the insertion
addPhotoDecoded_RemovesOnly ==
    /\ decoding > 0
    /\ decoding' = decoding - 1
    /\ particlesRef' = FilterOut(particlesRef, defaultPhotoParticleRef)
    /\ photoParticlesRef' = FilterOut(photoParticlesRef, defaultPhotoParticleRef)
    /\ defaultPhotoParticleRef' = NullParticle
    /\ UNCHANGED <<ctlVars, camState, svcVars, focusedPhotoRef, previousModeRef,
                   previousTextRef, textPositionsRef, decodeFailures, particleType,
                   target, material, originalMaterial>>

\* a completion that filters the placeholder out of the photo collection only
addPhotoDecoded_FiltersPhotoOnly ==
    /\ decoding > 0
    /\ decoding' = decoding - 1
    /\ IF defaultPhotoParticleRef # NullParticle
       THEN addPhotoToScene(particlesRef,
                            FilterOut(photoParticlesRef, defaultPhotoParticleRef),
                            FALSE)
       ELSE addPhotoToScene(particlesRef, photoParticlesRef, FALSE)
    /\ UNCHANGED <<ctlVars, camState, svcVars, focusedPhotoRef, previousModeRef,
                   previousTextRef, textPositionsRef, decodeFailures>>

\* addPhoto after its await, the decode having succeeded: the placeholder, if
\* there is one, is removed from both collections, then the photo is added
addPhotoDecoded ==
    /\ decoding > 0
    /\ decoding' = decoding - 1
    /\ IF defaultPhotoParticleRef # NullParticle
       THEN addPhotoToScene(FilterOut(particlesRef, defaultPhotoParticleRef),
                            FilterOut(photoParticlesRef, defaultPhotoParticleRef),
                            FALSE)
       ELSE addPhotoToScene(particlesRef, photoParticlesRef, FALSE)
    /\ UNCHANGED <<ctlVars, camState, svcVars, focusedPhotoRef, previousModeRef,
                   previousTextRef, textPositionsRef, decodeFailures>>

\* a failure path on which the placeholder has already been removed
addPhotoFailed_DropsPlaceholder ==
    /\ decoding > 0
    /\ decoding' = decoding - 1
    /\ decodeFailures' = decodeFailures + 1
    /\ particlesRef' = FilterOut(particlesRef, defaultPhotoParticleRef)
    /\ photoParticlesRef' = FilterOut(photoParticlesRef, defaultPhotoParticleRef)
    /\ defaultPhotoParticleRef' = NullParticle
    /\ UNCHANGED <<ctlVars, camState, svcVars, focusedPhotoRef, previousModeRef,
                   previousTextRef, textPositionsRef, particleType, target,
                   material, originalMaterial>>

\* addPhoto after its await, the decode having failed: the catch block reports
\* the failure and nothing else runs
addPhotoFailed ==
    /\ decoding > 0
    /\ decoding' = decoding - 1
    /\ decodeFailures' = decodeFailures + 1
    /\ UNCHANGED <<ctlVars, sceneVars, camState, svcVars>>

----------------------------------------------------------------------------
(* Particle Choreographer (Scene3D): the frame callback *)

\* a condition that compares the mode only
TransitionDetected_ModeOnly == modeRef # previousModeRef

\* a condition that holds on every frame
TransitionDetected_EveryFrame == TRUE

\* the condition of animate's transition block
TransitionDetected ==
    \/ modeRef # previousModeRef
    \/ (modeRef = "TEXT" /\ textRef # previousTextRef)

\* a pick tied to the first index
pickFocus_FirstIndex ==
    IF modeRef = "FOCUS"
    THEN IF Len(photoParticlesRef) > 0 THEN {photoParticlesRef[1]} ELSE {focusedPhotoRef}
    ELSE {NullParticle}

\* the values focusedPhotoRef.current can have after the transition block:
\* Math.random() picks any index of the photo collection
pickFocus ==
    IF modeRef = "FOCUS"
    THEN IF Len(photoParticlesRef) > 0
         THEN {photoParticlesRef[k] : k \in 1..Len(photoParticlesRef)}
         ELSE {focusedPhotoRef}
    ELSE {NullParticle}

\* the pixels the canvas samples for a text: none for the empty string, and
\* one fewer for the text of THREE than for the other texts
Rasterize(text) ==
    IF text = "" THEN {}
    ELSE IF text = textMap["THREE"] THEN {<<text, k>> : k \in 1..(MaxPixels - 1)}
    ELSE {<<text, k>> : k \in 1..MaxPixels}

\* the sequences that hold every element of a set once
Shuffles(S) ==
    {q \in [1..Cardinality(S) -> S] : \A a \in S : \E i \in 1..Cardinality(S) : q[i] = a}

\* the results calculateTextPositions can return: one position per sampled
\* pixel, in the shuffled order
calculateTextPositions(text, particleCount) ==
    LET pixels == Rasterize(text)
    IN  IF pixels = {} THEN {<<>>} ELSE Shuffles(pixels)

\* Math.floor(nonPhotoCount * 0.9)
textParticleCount ==
    LET nonPhotoCount ==
            Cardinality({i \in 1..Len(particlesRef) : particleType[particlesRef[i]] # "PHOTO"})
    IN  (nonPhotoCount * 9) \div 10

\* a transition block that computes the layout only when TEXT is entered
layoutText_OnEntryOnly ==
    IF modeRef = "TEXT" /\ textRef # "" /\ previousModeRef # "TEXT"
    THEN calculateTextPositions(textRef, textParticleCount)
    ELSE {textPositionsRef}

\* the values textPositionsRef.current can have after the transition block
layoutText ==
    IF modeRef = "TEXT" /\ textRef # ""
    THEN calculateTextPositions(textRef, textParticleCount)
    ELSE {textPositionsRef}

\* the target the particle loop gives the particle p at index i (from 1), with
\* the focus selection and the text layout the transition block left
assignTarget(p, i, focused, textPositions) ==
    CASE modeRef = "TREE" -> [position |-> Pos("tree"), scale |-> unitScale]
      [] modeRef = "SCATTER" -> [position |-> Pos("drift"), scale |-> target[p].scale]
      [] modeRef = "FOCUS" ->
            IF p = focused
            THEN [position |-> Pos("focus"), scale |-> focusScale]
            ELSE [position |-> Pos("background"), scale |-> backgroundScaleMultiplier]
      [] modeRef = "TEXT" ->
            IF particleType[p] # "PHOTO" /\ i - 1 < Len(textPositions)
            THEN [position |-> [rule |-> "text", px |-> textPositions[i]],
                  scale |-> textScale]
            ELSE [position |-> Pos("drift"), scale |-> target[p].scale]

\* a highlight that saves the current material every time
saveAndHighlight_Overwrites(m) ==
    [material |-> textMat, originalMaterial |-> m.material]

\* a mesh takes the highlight material; its own material is saved first unless
\* one is saved already
saveAndHighlight(m) ==
    [material |-> textMat,
     originalMaterial |-> IF m.originalMaterial = NoMaterial THEN m.material
                          ELSE m.originalMaterial]

\* a mesh takes its saved material back, if it has one
restoreOriginal(m) ==
    IF m.originalMaterial # NoMaterial
    THEN [m EXCEPT !.material = m.originalMaterial]
    ELSE m

\* a transition block that does not restore the materials on leaving TEXT
transitionMaterial_NoRestore(p) ==
    LET m == [material |-> material[p], originalMaterial |-> originalMaterial[p]]
    IN  IF TransitionDetected /\ modeRef = "TEXT" /\ previousModeRef # "TEXT"
           /\ particleType[p] # "PHOTO"
        THEN saveAndHighlight(m)
        ELSE m

\* the materials of the particle p of the main collection after the transition
\* block: entering TEXT highlights the non-photo particles, leaving TEXT
\* restores every particle
transitionMaterial(p) ==
    LET m == [material |-> material[p], originalMaterial |-> originalMaterial[p]]
    IN  IF ~TransitionDetected THEN m
        ELSE IF modeRef = "TEXT" /\ previousModeRef # "TEXT"
             THEN IF particleType[p] # "PHOTO" THEN saveAndHighlight(m) ELSE m
             ELSE IF modeRef # "TEXT" /\ previousModeRef = "TEXT"
                  THEN restoreOriginal(m)
                  ELSE m

\* a particle loop whose floating branch leaves the material as it is
frameMaterial_FloatKeeps(p, i, textPositions) ==
    LET m == transitionMaterial(p)
    IN  IF modeRef = "TEXT" /\ particleType[p] # "PHOTO" /\ i - 1 < Len(textPositions)
        THEN saveAndHighlight(m)
        ELSE m

\* the materials the frame leaves the particle p at index i (from 1) with: in
\* TEXT the particle loop highlights the particles of the text and restores
\* the floating non-photo particles
frameMaterial(p, i, textPositions) ==
    LET m == transitionMaterial(p)
    IN  IF modeRef = "TEXT"
        THEN IF particleType[p] # "PHOTO" /\ i - 1 < Len(textPositions)
             THEN saveAndHighlight(m)
             ELSE IF particleType[p] # "PHOTO" THEN restoreOriginal(m) ELSE m
        ELSE m

\* one frame: the transition block, then the particle loop
animateFrame ==
    \E focused \in (IF TransitionDetected THEN pickFocus ELSE {focusedPhotoRef}),
       textPositions \in (IF TransitionDetected THEN layoutText ELSE {textPositionsRef}) :
        /\ previousModeRef' = IF TransitionDetected THEN modeRef ELSE previousModeRef
        /\ previousTextRef' = IF TransitionDetected THEN textRef ELSE previousTextRef
        /\ focusedPhotoRef' = focused
        /\ textPositionsRef' = textPositions
        /\ target' = [p \in DOMAIN target |->
                         IF \E i \in 1..Len(particlesRef) : particlesRef[i] = p
                         THEN assignTarget(p, CHOOSE i \in 1..Len(particlesRef) :
                                                  particlesRef[i] = p,
                                           focused, textPositions)
                         ELSE target[p]]
        /\ material' = [p \in DOMAIN material |->
                           IF \E i \in 1..Len(particlesRef) : particlesRef[i] = p
                           THEN frameMaterial(p, CHOOSE i \in 1..Len(particlesRef) :
                                                    particlesRef[i] = p,
                                              textPositions).material
                           ELSE material[p]]
        /\ originalMaterial' = [p \in DOMAIN originalMaterial |->
                           IF \E i \in 1..Len(particlesRef) : particlesRef[i] = p
                           THEN frameMaterial(p, CHOOSE i \in 1..Len(particlesRef) :
                                                    particlesRef[i] = p,
                                              textPositions).originalMaterial
                           ELSE originalMaterial[p]]
        /\ UNCHANGED <<ctlVars, camState, svcVars, uploadVars, particlesRef,
                       photoParticlesRef, particleType, defaultPhotoParticleRef>>

animate == animateFrame /\ UNCHANGED scriptVars

----------------------------------------------------------------------------
(* Specification of the scene: the camera publishes, frames tick, photos are *)
(* uploaded                                                                  *)

\* the gesture service publishes a signal with one of the given gestures
Publish(gestures) ==
    \E g \in gestures :
        /\ handleHandUpdate([gesture |-> g, position |-> Center])
        /\ UNCHANGED <<scriptVars, camState, svcVars>>

\* the gestures the camera publishes in the scene's specification: one per
\* formation, and the loss of the hand
SceneGestures == {"NONE", "PINCH", "FIST", "OPEN", "TWO"}

CameraUpdate == Publish(SceneGestures)

Upload == addPhoto /\ UNCHANGED scriptVars

UploadDecoded == addPhotoDecoded /\ UNCHANGED scriptVars

UploadFailed == addPhotoFailed /\ UNCHANGED scriptVars

Next == CameraUpdate \/ animate \/ Upload \/ UploadDecoded \/ UploadFailed

Spec == Init /\ [][Next]_vars

----------------------------------------------------------------------------
(* Specification of a scripted run: gestures are fed one at a time and one  *)
(* frame ticks after each; the transitions the frames run are recorded      *)

ScriptGestures == {"FIST", "OPEN", "PINCH", "TWO"}

Feed ==
    \E g \in ScriptGestures :
        /\ pc = "feed"
        /\ Len(fed) < MaxScript
        /\ handleHandUpdate([gesture |-> g, position |-> Center])
        /\ fed' = Append(fed, g)
        /\ pc' = "tick"
        /\ UNCHANGED <<events, observed, sampled, layoutCall, treeCall,
          kinematics, frames, met, twin, motion, camState,
                       svcVars>>

Tick ==
    /\ pc = "tick"
    /\ animateFrame
    /\ events' = IF TransitionDetected THEN Append(events, modeRef) ELSE events
    /\ pc' = "feed"
    /\ UNCHANGED <<fed, observed, sampled, layoutCall, treeCall,
          kinematics, frames, met, twin, motion>>

InitSeq == InitProgram /\ pc = "feed" /\ lastStep = NoStep /\ motion = InitialMotion

NextSeq == Feed \/ Tick

SpecSeq == InitSeq /\ [][NextSeq]_vars

----------------------------------------------------------------------------
(* Specification of an observed run: the camera publishes and frames tick,  *)
(* in any interleaving; what each frame read from the refs is recorded      *)

FrameObserved ==
    /\ animateFrame
    /\ observed' = [mode |-> modeRef, text |-> textRef]
    /\ UNCHANGED <<pc, fed, events, sampled, layoutCall, treeCall,
          kinematics, frames, met, twin, motion>>

\* the gestures the camera publishes in an observed run: two texts and a
\* gesture without a text as well
ObservedGestures == {"NONE", "PINCH", "FIST", "OPEN", "ONE", "TWO", "THREE"}

CameraUpdateObserved == Publish(ObservedGestures)

NextObs == CameraUpdateObserved \/ FrameObserved

SpecObs == Init /\ [][NextObs]_vars

----------------------------------------------------------------------------
(* Specification of the classifier alone: processLandmarks is called on a   *)
(* frame                                                                    *)

\* the camera has captured a frame
InitClassify ==
    /\ InitProgram
    /\ motion = InitialMotion
    /\ pc = "free"
    /\ \E f \in HandFrames :
          lastStep = [outcome |-> "captured", frame |-> f, handData |-> NoSignal,
                      published |-> FALSE, active |-> TRUE]

NextClassify == Classify

SpecClassify == InitClassify /\ [][NextClassify]_vars

----------------------------------------------------------------------------
(* Specification of the gesture service: initialize runs through its awaits, *)
(* the detection loop publishes to the controller, the effect is cleaned up  *)
(* at any moment                                                             *)

NextSvc ==
    \/ VisionLoaded
    \/ LandmarkerCreated
    \/ StreamAcquired
    \/ InitializeFailed
    \/ LoadedData
    \/ AnimationFrame
    \/ cleanup

SpecSvc == Init /\ [][NextSvc]_vars

----------------------------------------------------------------------------
(* Specification of a session whose gesture service may fail: initialize    *)
(* runs through its awaits or rejects, the legend publishes hover gestures, *)
(* frames tick                                                              *)

\* the gestures the legend publishes in such a session: a formation, a text,
\* and the pointer leaving the legend
LegendGestures == {"PINCH", "TWO", NullGesture}

LegendHover ==
    \E g \in LegendGestures :
        /\ handleHoverGesture(g)
        /\ UNCHANGED <<scriptVars, camState, svcVars>>

NextFail ==
    \/ VisionLoaded
    \/ LandmarkerCreated
    \/ StreamAcquired
    \/ InitializeFailed
    \/ LoadedData
    \/ AnimationFrame
    \/ cleanup
    \/ LegendHover
    \/ animate

SpecFail == Init /\ [][NextFail]_vars

----------------------------------------------------------------------------
(* Specification of a sampled run: the camera and the legend publish, frames *)
(* tick, in any interleaving; what each frame read from the three refs is    *)
(* recorded, and how many frames have ticked since the latest publication    *)

\* the gestures and positions the camera publishes in a sampled run
SampledGestures == {"NONE", "PINCH", "TWO"}

\* the gestures the legend publishes in a sampled run
SampledHovers == {"OPEN", "THREE", NullGesture}

CameraUpdateSampled ==
    \E g \in SampledGestures, p \in Positions :
        /\ handleHandUpdate([gesture |-> g, position |-> p])
        /\ sampled' = [sampled EXCEPT !.run = 0]
        /\ UNCHANGED <<pc, fed, events, observed, layoutCall, treeCall,
          kinematics, frames, met, twin, motion, camState,
                       svcVars>>

LegendHoverSampled ==
    \E g \in SampledHovers :
        /\ handleHoverGesture(g)
        /\ sampled' = [sampled EXCEPT !.run = 0]
        /\ UNCHANGED <<pc, fed, events, observed, layoutCall, treeCall,
          kinematics, frames, met, twin, motion, camState,
                       svcVars>>

FrameSampled ==
    /\ animateFrame
    /\ sampled' = [mode |-> modeRef, text |-> textRef, hand |-> handRef,
                   run |-> IF sampled.run < 2 THEN sampled.run + 1 ELSE 2]
    /\ UNCHANGED <<pc, fed, events, observed, layoutCall, treeCall,
          kinematics, frames, met, twin, motion>>

NextRead == CameraUpdateSampled \/ LegendHoverSampled \/ FrameSampled

SpecRead == Init /\ [][NextRead]_vars

----------------------------------------------------------------------------
(* Specification of the text layout alone: the controller resolves gestures *)
(* to texts, and calculateTextPositions is called on the current text with  *)
(* any particle count                                                       *)

\* the gestures published here: the three with a text, one without a text,
\* and a gesture of another formation
LayoutGestures == {"ONE", "TWO", "THREE", "FOUR", "FIST"}

CameraUpdateLayout == Publish(LayoutGestures)

\* one call calculateTextPositions(textRef.current, particleCount), with fewer
\* particles than sampled pixels, as many, or more
CallLayout ==
    \E particleCount \in 0..(2 * MaxPixels + 1) :
        \E positions \in calculateTextPositions(textRef, particleCount) :
            /\ layoutCall' = [text |-> textRef, particleCount |-> particleCount,
                              positions |-> positions, called |-> TRUE]
            /\ UNCHANGED <<ctlVars, sceneVars, uploadVars, camState, svcVars,
                           pc, fed, events, observed, sampled, treeCall,
                           kinematics, frames, met, twin, motion>>

NextLayout == CameraUpdateLayout \/ CallLayout

SpecLayout == Init /\ [][NextLayout]_vars

----------------------------------------------------------------------------
(* Particle Choreographer (Scene3D): the numbers of the particle loop, for  *)
(* the first particle of the main collection. Lengths are in hundredths,    *)
(* angles in ten-thousandths of a radian, fractions in hundredths.          *)

\* SCATTER_MODE_CONFIG.boundaryRadius
boundaryRadius == 2500

\* ANIMATION_CONFIG.rotationLerpSpeed
rotationLerpSpeed == 5

\* Vector3.add, Vector3.multiplyScalar and the square of Vector3.length
add(a, b) == Vec(a.x + b.x, a.y + b.y, a.z + b.z)

multiplyScalar(a, k) == Vec(a.x * k, a.y * k, a.z * k)

lengthSq(a) == a.x * a.x + a.y * a.y + a.z * a.z

\* a boundary test at twice the radius
isOutOfBounds_Lenient(position) ==
    lengthSq(position) > 4 * boundaryRadius * boundaryRadius

\* position.length() > boundaryRadius
isOutOfBounds(position) == lengthSq(position) > boundaryRadius * boundaryRadius

\* a smoothing that leaves the value where it is
lerp_NoPull(x, y, t) == x

\* THREE.MathUtils.lerp(x, y, t) = (1 - t) * x + t * y, t in hundredths
lerp(x, y, t) == x + ((y - x) * t) \div 100

\* a drift that does not turn round at the boundary
drift_KeepsVelocity(m) ==
    [m EXCEPT !.basePosition = add(m.basePosition, m.velocity)]

\* basePosition.add(velocity); if (isOutOfBounds(basePosition))
\* velocity.multiplyScalar(-1)
drift(m) ==
    LET moved == add(m.basePosition, m.velocity)
    IN  [m EXCEPT !.basePosition = moved,
                  !.velocity = IF isOutOfBounds(moved) THEN multiplyScalar(@, -1)
                               ELSE @]

\* mesh.rotation += rotationVelocity, component by component
spin(m) == [m EXCEPT !.rotation = add(@, m.rotationVelocity)]

\* the smoothing of the rotation at the end of the loop body
smooth(m) ==
    [m EXCEPT !.rotation =
        Vec(lerp(@.x, m.targetRotation.x, rotationLerpSpeed),
            lerp(@.y, m.targetRotation.y, rotationLerpSpeed),
            lerp(@.z, m.targetRotation.z, rotationLerpSpeed))]

\* the loop body for the first particle, an ordinary one at index 0: SCATTER
\* drifts and spins it, TEXT drifts it unless the text layout has a position
\* for it, TREE and FOCUS leave its basePosition; the smoothing follows
particleMotion(m, textPositions) ==
    smooth(CASE modeRef = "SCATTER" -> spin(drift(m))
             [] modeRef = "TEXT" -> IF 0 < Len(textPositions) THEN m ELSE drift(m)
             [] OTHER -> m)

----------------------------------------------------------------------------
(* Specification of a drift run: the construction loop draws the numbers of *)
(* the first particle, the camera publishes an open hand, frames tick       *)

\* draws of calculateScatterPosition (radius 8 to 20), calculateRandomVelocity
\* (components within 0.05) and calculateRandomRotationVelocity (components
\* from 0 to 0.02)
InitialMotions ==
    {[basePosition |-> b, velocity |-> v, rotation |-> Vec(0, 0, 0),
      rotationVelocity |-> r, targetRotation |-> Vec(0, 0, 0)] :
        b \in {Vec(2000, 0, 0), Vec(0, -800, 0), Vec(1200, 0, 1600)},
        v \in {Vec(5, 0, 0), Vec(-3, 4, 0), Vec(2, -5, 3)},
        r \in {Vec(200, 0, 37), Vec(60, 120, 0)}}

InitDrift ==
    InitProgram /\ pc = "free" /\ lastStep = NoStep /\ motion \in InitialMotions

CameraUpdateDrift == Publish({"OPEN"})

FrameDrift ==
    /\ animateFrame
    /\ motion' = particleMotion(motion, textPositionsRef')
    /\ UNCHANGED <<pc, fed, events, observed, sampled, layoutCall, treeCall,
                   kinematics, frames, met, twin>>

NextDrift == CameraUpdateDrift \/ FrameDrift

SpecDrift == InitDrift /\ [][NextDrift]_vars

----------------------------------------------------------------------------
(* Specification of the spiral cone alone: calculateTreePosition is called  *)
(* with any total count and any index up to it; the two latest calls are    *)
(* kept                                                                     *)

CallTree ==
    \E totalCount \in 1..MaxCount :
        \E index \in 0..totalCount :
            LET call == [index |-> index, totalCount |-> totalCount,
                         position |-> calculateTreePosition(index, totalCount)]
            IN  /\ treeCall' = IF treeCall = <<>> THEN <<call>>
                               ELSE <<treeCall[Len(treeCall)], call>>
                /\ UNCHANGED <<ctlVars, sceneVars, uploadVars, camState, svcVars,
                               pc, fed, events, observed, sampled, layoutCall,
                               kinematics, frames, met, twin, motion>>

NextTree == CallTree

SpecTree == Init /\ [][NextTree]_vars

----------------------------------------------------------------------------
(* Particle Choreographer (Scene3D): what the particle loop does to the     *)
(* vectors a particle owns. A call is modelled by what it returns and by    *)
(* what it leaves in its argument.                                          *)

\* TREE_MODE_CONFIG.rotationSpeed: 0.2 rad/s, in thousandths of a half turn per
\* frame of a sixtieth of a second
rotationSpeed == 1

\* FOCUS_MODE_CONFIG.backgroundDistanceMultiplier (tenths)
backgroundDistanceMultiplier == 15

\* applyTreeRotation(position, time): a new vector, the position turned about
\* the axis of the cone; the argument is left as it was
applyTreeRotation(position, time) ==
    [result |-> [position EXCEPT !.angle = @ + time * rotationSpeed],
     position |-> position]

\* a background position computed in place, without the clone
calculateBackgroundPosition_InPlace(basePosition, multiplier) ==
    LET scaled == Vec((basePosition.x * multiplier) \div 10,
                      (basePosition.y * multiplier) \div 10,
                      (basePosition.z * multiplier) \div 10)
    IN  [result |-> scaled, basePosition |-> scaled]

\* calculateBackgroundPosition(basePosition, multiplier):
\* basePosition.clone().multiplyScalar(multiplier); the argument is left as it was
calculateBackgroundPosition(basePosition, multiplier) ==
    [result |-> Vec((basePosition.x * multiplier) \div 10,
                    (basePosition.y * multiplier) \div 10,
                    (basePosition.z * multiplier) \div 10),
     basePosition |-> basePosition]

\* the loop body on the vectors of the particle p at index i (from 1): TREE
\* hands treePosition to applyTreeRotation, SCATTER drifts, FOCUS hands
\* basePosition to calculateBackgroundPosition unless p is the focus, TEXT
\* drifts unless the layout has a position for p
frameKinematics(k, p, i, focused, textPositions, time) ==
    CASE modeRef = "TREE" ->
            [k EXCEPT !.treePosition = applyTreeRotation(@, time).position]
      [] modeRef = "SCATTER" -> drift(k)
      [] modeRef = "FOCUS" ->
            IF p = focused THEN k
            ELSE [k EXCEPT !.basePosition =
                      calculateBackgroundPosition(@, backgroundDistanceMultiplier).basePosition]
      [] modeRef = "TEXT" ->
            IF particleType[p] # "PHOTO" /\ i - 1 < Len(textPositions)
            THEN k
            ELSE drift(k)

----------------------------------------------------------------------------
(* Specification of the particles' vectors: the camera publishes, photos    *)
(* are uploaded, and at most MaxFrames frames tick                          *)

\* one gesture per formation, the text one with a layout shorter than the
\* ordinary particles
KinematicGestures == {"PINCH", "FIST", "OPEN", "THREE"}

CameraUpdateKin == Publish(KinematicGestures)

FrameKin ==
    /\ frames < MaxFrames
    /\ animateFrame
    /\ frames' = frames + 1
    /\ kinematics' = [p \in DOMAIN kinematics |->
                         IF \E i \in 1..Len(particlesRef) : particlesRef[i] = p
                         THEN frameKinematics(kinematics[p], p,
                                              CHOOSE i \in 1..Len(particlesRef) :
                                                  particlesRef[i] = p,
                                              focusedPhotoRef', textPositionsRef',
                                              frames)
                         ELSE kinematics[p]]
    /\ UNCHANGED <<pc, fed, events, observed, sampled, layoutCall, treeCall, met,
                   twin, motion>>

\* addPhotoToScene gives the new particle its vectors
UploadDecodedKin ==
    /\ addPhotoDecoded
    /\ kinematics' = [p \in DOMAIN particleType' |->
                         IF p \in DOMAIN kinematics THEN kinematics[p]
                         ELSE InitialKinematics(p)]
    /\ UNCHANGED <<pc, fed, events, observed, sampled, layoutCall, treeCall,
                   frames, met, twin, motion>>

NextKin == CameraUpdateKin \/ FrameKin \/ Upload \/ UploadDecodedKin \/ UploadFailed

SpecKin == Init /\ [][NextKin]_vars

----------------------------------------------------------------------------
(* Specification of a floating run: the first particle does not spin, the   *)
(* camera publishes an open hand or the gesture of a text that is empty,    *)
(* so that the particle drifts in SCATTER and floats in TEXT; frames tick   *)

\* draws of the construction loop in which calculateRandomRotationVelocity
\* returns zero
FloatingMotions ==
    {[basePosition |-> b, velocity |-> v, rotation |-> Vec(0, 0, 0),
      rotationVelocity |-> Vec(0, 0, 0), targetRotation |-> Vec(0, 0, 0)] :
        b \in {Vec(2000, 0, 0), Vec(1200, 0, 1600)},
        v \in {Vec(5, 0, 0), Vec(-3, 4, 0), Vec(2, -5, 3)}}

InitFloat ==
    InitProgram /\ pc = "free" /\ lastStep = NoStep /\ motion \in FloatingMotions

CameraUpdateFloat == Publish({"OPEN", "ONE"})

NextFloat == CameraUpdateFloat \/ FrameDrift

SpecFloat == InitFloat /\ [][NextFloat]_vars

----------------------------------------------------------------------------
(* Specification of a run whose frames keep ticking: the camera publishes,  *)
(* photos are uploaded, and animate, which re-arms requestAnimationFrame    *)
(* first thing on every frame, is never postponed for ever                  *)

\* the FocusSelection is a member of the photo collection
FocusIsPhoto == focusedPhotoRef \in Range(photoParticlesRef)

\* the text-layout cache holds a layout of the text the scene is given
CacheHoldsText ==
    /\ textPositionsRef # <<>>
    /\ \A i \in 1..Len(textPositionsRef) : textPositionsRef[i][1] = textRef

\* a step has been taken: a formation that has just become FOCUS, or TEXT with
\* a new non-empty text, starts unmet; what a state fulfils is remembered
Remember ==
    met' = [focus |-> IF state'.mode = "FOCUS" /\ state.mode # "FOCUS"
                      THEN FocusIsPhoto'
                      ELSE met.focus \/ FocusIsPhoto',
            text |-> IF /\ state'.mode = "TEXT" /\ state'.text # ""
                        /\ (state.mode # "TEXT" \/ state.text # state'.text)
                     THEN CacheHoldsText'
                     ELSE met.text \/ CacheHoldsText']

\* one gesture for FOCUS and two with a text; the run starts in TREE
LiveGestures == {"PINCH", "TWO", "THREE"}

CameraUpdateLive ==
    \E g \in LiveGestures :
        /\ handleHandUpdate([gesture |-> g, position |-> Center])
        /\ Remember
        /\ UNCHANGED <<pc, fed, events, observed, sampled, layoutCall, treeCall,
                       kinematics, frames, twin, motion, camState, svcVars>>

FrameLive ==
    /\ animateFrame
    /\ Remember
    /\ UNCHANGED <<pc, fed, events, observed, sampled, layoutCall, treeCall,
                   kinematics, frames, twin, motion>>

UploadDecodedLive ==
    /\ addPhotoDecoded
    /\ Remember
    /\ UNCHANGED <<pc, fed, events, observed, sampled, layoutCall, treeCall,
                   kinematics, frames, twin, motion>>

NextLive == CameraUpdateLive \/ FrameLive \/ Upload \/ UploadDecodedLive

SpecLive == Init /\ [][NextLive]_vars /\ WF_vars(FrameLive)

----------------------------------------------------------------------------
(* Particle Choreographer (Scene3D): the rotation of the particle group     *)

\* ANIMATION_CONFIG.gestureRotationSensitivity
gestureRotationSensitivity == 2

\* a target rotation that follows the hand in every formation
gestureRotation_Always(mode, hand) ==
    [y |-> hand.position.x * gestureRotationSensitivity,
     x |-> (hand.position.y * gestureRotationSensitivity) \div 2]

\* targetRotationY and targetRotationX of a frame that reads the formation mode
\* and the hand signal hand (tenths of a radian): zero in TEXT and in FOCUS
gestureRotation(mode, hand) ==
    IF mode # "TEXT" /\ mode # "FOCUS"
    THEN [y |-> hand.position.x * gestureRotationSensitivity,
          x |-> (hand.position.y * gestureRotationSensitivity) \div 2]
    ELSE [y |-> 0, x |-> 0]

----------------------------------------------------------------------------
(* Specification of two runs side by side: both are given the same gestures *)
(* at the same moments and tick together; while the formation is TEXT or    *)
(* FOCUS the second run may be given another hand position than the first   *)

\* one gesture per formation
TwinGestures == {"FIST", "OPEN", "PINCH", "TWO"}

CameraUpdateTwin ==
    \E g \in TwinGestures : \E position \in Positions : \E other \in Positions :
        /\ (state.mode \notin {"TEXT", "FOCUS"}) => other = position
        /\ handleHandUpdate([gesture |-> g, position |-> position])
        /\ LET next == HandUpdateResult(twin.state, [gesture |-> g, position |-> other])
           IN  twin' = [twin EXCEPT !.state = next, !.modeRef = next.mode,
                                    !.textRef = next.text, !.handRef = next.hand]
        /\ UNCHANGED <<pc, fed, events, observed, sampled, layoutCall, treeCall,
                       kinematics, frames, met, motion, camState, svcVars>>

FrameTwin ==
    /\ animateFrame
    /\ twin' = [twin EXCEPT !.rotation = gestureRotation(modeRef, handRef),
                            !.twinRotation = gestureRotation(twin.modeRef, twin.handRef),
                            !.framed = TRUE]
    /\ UNCHANGED <<pc, fed, events, observed, sampled, layoutCall, treeCall,
                   kinematics, frames, met, motion>>

NextTwin == CameraUpdateTwin \/ FrameTwin

SpecTwin == Init /\ [][NextTwin]_vars

----------------------------------------------------------------------------
(* Specification of the two controllers without the legend: the gesture     *)
(* service publishes every signal to the hover-aware App and to the         *)
(* camera-only App, and no hover gesture is ever supplied                   *)

\* one signal is published to both Apps; the signals so far and, after each,
\* the formation and text of either App are recorded
PublishBoth ==
    \E g \in GestureType, p \in Positions :
        /\ Len(fed) < MaxSignals
        /\ handleHandUpdate([gesture |-> g, position |-> p])
        /\ handleHandUpdateCameraOnly([gesture |-> g, position |-> p])
        /\ fed' = Append(fed, [gesture |-> g, position |-> p])
        /\ events' = Append(events,
                            [hoverAware |-> <<state'.mode, state'.text>>,
                             cameraOnly |-> <<camState'.mode, camState'.text>>])
        /\ UNCHANGED <<pc, observed, sampled, layoutCall, treeCall, kinematics,
                       frames, met, twin, motion, svcVars>>

NextCam == PublishBoth

SpecCam == Init /\ [][NextCam]_vars

----------------------------------------------------------------------------
(* Properties of the Interaction Controller *)

\* the effective gesture of a controller state: the camera gesture if it is not
\* NONE, else the hover gesture if there is one, else NONE
Effective(st) ==
    IF st.hand.gesture # "NONE" THEN st.hand.gesture
    ELSE IF st.hoverGesture # NullGesture THEN st.hoverGesture ELSE "NONE"

NumericGestures == {"ONE", "TWO", "THREE", "FOUR", "FIVE"}

\* the formation each gesture other than NONE stands for
FormationOf(g) ==
    CASE g = "PINCH" -> "FOCUS"
      [] g = "FIST" -> "TREE"
      [] g = "OPEN" -> "SCATTER"
      [] g \in NumericGestures -> "TEXT"

\* the text of a numeric gesture: its table entry, or the empty string
TableText(g) == IF g \in DOMAIN textMap THEN textMap[g] ELSE ""

\* C1: every controller step resolves the effective gesture g of the new state,
\* from the previous (formation, text), to: PINCH -> FOCUS, FIST -> TREE,
\* OPEN -> SCATTER, each with the text unchanged; ONE..FIVE -> TEXT with the
\* text of the table, or the empty string when the table has no entry for g;
\* NONE -> the previous formation and the previous text.
C1_GestureResolution ==
    [][LET g == Effective(state')
       IN  /\ g \in {"PINCH", "FIST", "OPEN"} =>
                 /\ state'.mode = FormationOf(g)
                 /\ state'.text = state.text
           /\ g \in NumericGestures =>
                 /\ state'.mode = "TEXT"
                 /\ state'.text = TableText(g)
           /\ g = "NONE" =>
                 /\ state'.mode = state.mode
                 /\ state'.text = state.text]_vars

\* C1 witness: a gesture without a table entry has been resolved while a hover
\* gesture with an entry is present: TEXT with the empty string
C1_Witness ==
    /\ state.hand.gesture = "FIVE"
    /\ state.hoverGesture = "TWO"
    /\ state.mode = "TEXT"
    /\ state.text = ""

\* C2: camera input overrides hover input: in every state after a step, a
\* camera gesture other than NONE fixes the formation (and for a numeric gesture
\* the text) whatever the hover gesture is, and a hover step taken while the
\* camera gesture is not NONE changes neither formation nor text.
C2_CameraOverridesHover ==
    [][/\ state'.hand.gesture # "NONE" =>
             /\ state'.mode = FormationOf(state'.hand.gesture)
             /\ state'.hand.gesture \in NumericGestures =>
                    state'.text = TableText(state'.hand.gesture)
       /\ (state.hand.gesture # "NONE" /\ state'.hoverGesture # state.hoverGesture) =>
             /\ state'.mode = state.mode
             /\ state'.text = state.text]_vars

\* C2 witness: the camera reports PINCH, the pointer hovers OPEN, and the
\* formation is FOCUS
C2_Witness ==
    /\ state.hand.gesture = "PINCH"
    /\ state.hoverGesture = "OPEN"
    /\ state.mode = "FOCUS"

\* C3: formation and text change between two consecutive controller states only
\* if the effective gesture changed; for the camera-only controller the
\* effective gesture is the camera gesture.
C3_ChangeOnlyOnGestureChange ==
    [][/\ Effective(state') = Effective(state) =>
             /\ state'.mode = state.mode
             /\ state'.text = state.text
       /\ camState'.hand.gesture = camState.hand.gesture =>
             /\ camState'.mode = camState.mode
             /\ camState'.text = camState.text]_vars

\* C3 witness: OPEN has been held across an update that moved the hand, and
\* the formation is still SCATTER in both controllers
C3_Witness ==
    /\ state.hand.gesture = "OPEN"
    /\ state.hand.position # Center
    /\ state.mode = "SCATTER"
    /\ camState.hand = state.hand
    /\ camState.mode = "SCATTER"

----------------------------------------------------------------------------
(* Properties of a scripted run *)

\* the claim's sequence
HeldGestures == <<"FIST", "FIST", "OPEN", "OPEN", "OPEN">>

\* the formations a gesture sequence resolves to, one per input
RECURSIVE ResolvedFormations(_)
ResolvedFormations(gs) ==
    IF gs = <<>> THEN <<>>
    ELSE Append(ResolvedFormations(SubSeq(gs, 1, Len(gs) - 1)), FormationOf(gs[Len(gs)]))

\* a sequence without the elements that repeat their predecessor, the first
\* element's predecessor being prev
RECURSIVE Changes(_, _)
Changes(prev, q) ==
    IF q = <<>> THEN <<>>
    ELSE IF q[1] = prev THEN Changes(prev, Tail(q))
         ELSE <<q[1]>> \o Changes(q[1], Tail(q))

----------------------------------------------------------------------------
(* Properties of the Particle Choreographer *)

\* C5: the transition actions run exactly on the frames that observe a change:
\* a frame runs them if and only if the formation it reads differs from the one
\* the previous frame read or, the formation being TEXT, the text it reads
\* differs from the one the previous frame read; a frame that observes no
\* change leaves FocusSelection and the text-layout cache unchanged.
C5_TransitionOncePerObservedChange ==
    [][FrameObserved =>
          LET differs == \/ modeRef # observed.mode
                         \/ (modeRef = "TEXT" /\ textRef # observed.text)
          IN  /\ TransitionDetected <=> differs
              /\ ~differs => UNCHANGED <<focusedPhotoRef, textPositionsRef>>]_vars

\* C5 witness: a frame has observed TEXT with a text other than the one the
\* transition before it computed the layout for, and has recomputed the layout
C5_Witness ==
    /\ observed = [mode |-> "TEXT", text |-> textMap["THREE"]]
    /\ previousTextRef = textMap["THREE"]
    /\ textPositionsRef # <<>>
    /\ textPositionsRef[1][1] = textMap["THREE"]
    /\ state.text = textMap["TWO"]

\* C6 as claimed: FocusSelection is none or a member of the photo collection.
C6_FocusIsPhotoMember ==
    focusedPhotoRef = NullParticle \/ focusedPhotoRef \in Range(photoParticlesRef)

\* C7 as claimed: a selection never persists across a toggle FOCUS -> other ->
\* FOCUS: whenever the controller's formation enters FOCUS no selection of an
\* earlier stay in FOCUS is in place, so that the entry makes a new pick.
C7_NoSelectionAcrossToggle ==
    [][(state.mode # "FOCUS" /\ state'.mode = "FOCUS") =>
           focusedPhotoRef' = NullParticle]_vars

\* C8: on a frame that enters FOCUS every member of the photo collection can
\* become the FocusSelection, and the particle such a frame picks is a member.
C8_PickDrawsFromFullSet ==
    [][/\ (modeRef = "FOCUS" /\ previousModeRef # "FOCUS") =>
             \A p \in Range(photoParticlesRef) : ENABLED (animate /\ focusedPhotoRef' = p)
       /\ (animate /\ modeRef = "FOCUS" /\ previousModeRef # "FOCUS") =>
             focusedPhotoRef' \in Range(photoParticlesRef)]_vars

\* C8 witness: with two photos in the collection the second one is focused
C8_Witness ==
    /\ Len(photoParticlesRef) >= 2
    /\ focusedPhotoRef = photoParticlesRef[2]
    /\ previousModeRef = "FOCUS"

\* the photo collection is never empty: the placeholder is there from
\* construction and is removed only by the step that adds a photo
PhotoCollectionNonEmpty == Len(photoParticlesRef) >= 1

\* C10: a successful addPhoto appends a new PHOTO particle to both collections:
\* without a placeholder both collections grow by one; with a placeholder the
\* placeholder is in neither collection afterwards and both sizes are unchanged.
C10_AddPhotoInsertsIntoBoth ==
    [][UploadDecoded =>
          LET new == particlesRef'[Len(particlesRef')]
          IN  /\ new \notin Range(particlesRef)
              /\ particleType'[new] = "PHOTO"
              /\ new \in Range(photoParticlesRef')
              /\ new \notin Range(photoParticlesRef)
              /\ IF defaultPhotoParticleRef = NullParticle
                 THEN /\ particlesRef' = Append(particlesRef, new)
                      /\ photoParticlesRef' = Append(photoParticlesRef, new)
                 ELSE /\ defaultPhotoParticleRef \notin Range(particlesRef')
                      /\ defaultPhotoParticleRef \notin Range(photoParticlesRef')
                      /\ Range(particlesRef') =
                            (Range(particlesRef) \ {defaultPhotoParticleRef}) \cup {new}
                      /\ Len(particlesRef') = Len(particlesRef)
                      /\ Len(photoParticlesRef') = Len(photoParticlesRef)]_vars

\* C10 witness: a first photo has replaced the placeholder and a second one
\* has been appended
C10_Witness ==
    /\ defaultPhotoParticleRef = NullParticle
    /\ PlaceholderId \notin Range(particlesRef)
    /\ Len(particlesRef) = NumMain + 2
    /\ Len(photoParticlesRef) = 2

\* C11: the placeholder is removed exactly once, by the first addPhoto call to
\* complete its decode, whatever calls are still decoding: a completion removes
\* it if and only if no photo was added before, no other step removes it, it
\* never reappears in either collection, and the photo collection is the
\* placeholder alone while no call has succeeded and exactly the N photos the
\* N successful calls created, in the order of completion, afterwards.
C11_PlaceholderRemovedOnce ==
    [][/\ UploadDecoded =>
             /\ (PlaceholderId \in Range(particlesRef)) <=> (PhotosAdded = 0)
             /\ (PlaceholderId \in Range(photoParticlesRef)) <=> (PhotosAdded = 0)
             /\ PlaceholderId \notin Range(particlesRef')
             /\ PlaceholderId \notin Range(photoParticlesRef')
       /\ (PlaceholderId \in Range(particlesRef) /\ PlaceholderId \notin Range(particlesRef'))
             => (UploadDecoded /\ PhotosAdded = 0)
       /\ PlaceholderId \notin Range(particlesRef) => PlaceholderId \notin Range(particlesRef')
       /\ PlaceholderId \notin Range(photoParticlesRef)
             => PlaceholderId \notin Range(photoParticlesRef')
       /\ photoParticlesRef' = IF PhotosAdded' = 0 THEN <<PlaceholderId>>
                               ELSE [k \in 1..PhotosAdded' |-> PlaceholderId + k]]_vars

\* C11 witness: two calls have completed their decodes; the first completion
\* removed the placeholder and the collection holds the two photos
C11_Witness ==
    /\ PhotosAdded = 2
    /\ decoding = 0
    /\ decodeFailures = 0
    /\ photoParticlesRef = <<PlaceholderId + 1, PlaceholderId + 2>>
    /\ PlaceholderId \notin Range(particlesRef)

\* C12: an addPhoto call whose decode fails leaves the main collection, the
\* photo collection, the placeholder reference, FocusSelection and the set of
\* particle objects (with their types and targets) exactly as they were.
C12_FailedDecodeChangesNothing ==
    [][UploadFailed =>
          /\ UNCHANGED <<particlesRef, photoParticlesRef, defaultPhotoParticleRef,
                         focusedPhotoRef, particleType, target>>
          /\ PlaceholderId \in Range(photoParticlesRef)
                => PlaceholderId \in Range(photoParticlesRef')]_vars

\* C12 witness: a decode has failed and the placeholder is still in both
\* collections, selected by FOCUS
C12_Witness ==
    /\ decodeFailures >= 1
    /\ defaultPhotoParticleRef = PlaceholderId
    /\ PlaceholderId \in Range(particlesRef)
    /\ photoParticlesRef = <<PlaceholderId>>
    /\ focusedPhotoRef = PlaceholderId

\* C13: every frame iterates a main collection in which each particle is fully
\* constructed (it has a type and a target), each PHOTO particle is in the
\* photo collection and each member of the photo collection is in the main
\* collection, and the placeholder is absent only if a photo has replaced it.
C13_FrameSeesWholeInsertion ==
    [][animate =>
          /\ \A p \in Range(particlesRef) : p \in DOMAIN particleType /\ p \in DOMAIN target
          /\ \A p \in Range(particlesRef) :
                 particleType[p] = "PHOTO" => p \in Range(photoParticlesRef)
          /\ \A p \in Range(photoParticlesRef) : p \in Range(particlesRef)
          /\ PlaceholderId \notin Range(particlesRef) =>
                 \E p \in Range(particlesRef) :
                     p > PlaceholderId /\ p \in Range(photoParticlesRef)]_vars

\* C13 witness: a frame has iterated the photo that replaced the placeholder
\* and has given it a target
C13_Witness ==
    /\ PlaceholderId \notin Range(particlesRef)
    /\ PlaceholderId + 1 \in Range(particlesRef)
    /\ target[PlaceholderId + 1].position # Pos("base")

\* C14: each particle occupies one slot of the main collection, each member of
\* the photo collection occupies one slot of it, and the photo collection is
\* exactly the set of PHOTO particles of the main collection.
C14_CollectionsConsistent ==
    /\ \A i, j \in 1..Len(particlesRef) : particlesRef[i] = particlesRef[j] => i = j
    /\ \A i, j \in 1..Len(photoParticlesRef) :
           photoParticlesRef[i] = photoParticlesRef[j] => i = j
    /\ Range(photoParticlesRef) =
           {p \in Range(particlesRef) : particleType[p] = "PHOTO"}

\* C14 witness: a photo has replaced the placeholder while another call is
\* still decoding
C14_Witness ==
    /\ PhotosAdded = 1
    /\ decoding = 1
    /\ Len(particlesRef) = NumMain + 1
    /\ photoParticlesRef = <<PlaceholderId + 1>>

----------------------------------------------------------------------------
(* Properties of the Gesture Classifier *)

\* the features of a frame the priority list is stated over
PinchBelow(f) == pinchDistanceOf(f) < pinchThreshold
SpreadBelowFist(f) == sumDistanceToWrist(f) < 4 * fistThreshold
SpreadAboveOpen(f) == sumDistanceToWrist(f) > 4 * openThreshold

NumberGesture(count) ==
    CASE count = 2 -> "TWO" [] count = 3 -> "THREE" [] count = 4 -> "FOUR"

\* C15 as claimed: the gesture of every classified frame is the first match of:
\* PINCH if the pinch distance is below the threshold; else FIST if the count
\* is 0 and the spread is below the fist threshold; else TWO/THREE/FOUR if the
\* count is 2/3/4; else OPEN if the spread is above the open threshold or the
\* count is at least 5; else NONE.
C15_FirstMatchAsClaimed ==
    lastStep.outcome = "classified" =>
        LET f == lastStep.frame
            count == countExtendedFingers(f)
        IN  lastStep.handData.gesture =
                IF PinchBelow(f) THEN "PINCH"
                ELSE IF count = 0 /\ SpreadBelowFist(f) THEN "FIST"
                ELSE IF count \in {2, 3, 4} THEN NumberGesture(count)
                ELSE IF SpreadAboveOpen(f) \/ count >= 5 THEN "OPEN"
                ELSE "NONE"

\* C15 as amended: the gesture of every classified frame is the first match of:
\* PINCH if the pinch distance is below the threshold; else FIST if the count
\* is 0 and the spread is below the fist threshold; else TWO/THREE/FOUR if the
\* count is 2/3/4; else OPEN if the count is not 0 and the spread is above the
\* open threshold or the count is at least 5; else NONE. The position is the
\* palm-center landmark.
C15_FirstMatchOpenNeedsFinger ==
    lastStep.outcome = "classified" =>
        LET f == lastStep.frame
            count == countExtendedFingers(f)
        IN  /\ lastStep.handData.gesture =
                   IF PinchBelow(f) THEN "PINCH"
                   ELSE IF count = 0 /\ SpreadBelowFist(f) THEN "FIST"
                   ELSE IF count \in {2, 3, 4} THEN NumberGesture(count)
                   ELSE IF (count # 0 /\ SpreadAboveOpen(f)) \/ count >= 5 THEN "OPEN"
                   ELSE "NONE"
            /\ lastStep.handData.position = f.palmCenter

\* C15 witness: a frame without pinch, with no finger extended and a spread
\* above the open threshold has been classified as NONE
C15_Witness ==
    /\ lastStep.outcome = "classified"
    /\ ~PinchBelow(lastStep.frame)
    /\ countExtendedFingers(lastStep.frame) = 0
    /\ SpreadAboveOpen(lastStep.frame)
    /\ lastStep.handData.gesture = "NONE"

\* C16: the signal published for a frame is the signal an earlier
\* classification of the same frame gave, whatever was classified in between.
C16_SameFrameSameSignal ==
    (lastStep.outcome = "hand" /\ lastStep.frame = remembered.frame) =>
        /\ lastStep.handData = remembered.handData
        /\ state.hand = remembered.handData

\* C16 witness: a frame has been classified, then another frame, then the
\* first frame again
C16_Witness ==
    /\ lastStep.outcome = "hand"
    /\ lastStep.frame = remembered.frame
    /\ remembered.between
    /\ lastStep.handData.gesture = "FIST"

\* C17: the signal published for a detection frame that finds no hand is
\* {gesture: NONE, position: (0.5, 0.5)}, whatever was published before.
C17_NoHandPublishesNeutral ==
    lastStep.outcome = "noHand" =>
        /\ lastStep.published
        /\ lastStep.handData = [gesture |-> "NONE", position |-> Center]
        /\ state.hand = [gesture |-> "NONE", position |-> Center]

\* C17 witness: two fingers were shown away from the centre, then a frame
\* found no hand: the formation is still TEXT and the position is the centre
C17_Witness ==
    /\ lastStep.outcome = "noHand"
    /\ state.mode = "TEXT"
    /\ state.hand.position = Center

\* C18 as claimed: after an initialization failure and after an exception in a
\* detection frame a neutral signal has been published: the signal in effect
\* is {gesture: NONE, position: (0.5, 0.5)}.
C18_FailuresPublishNeutral ==
    lastStep.outcome \in {"initFailed", "throws"} =>
        /\ lastStep.published
        /\ state.hand = [gesture |-> "NONE", position |-> Center]

\* C19 as claimed: onHandUpdate is never called after the teardown.
C19_NoPublishAfterTeardown ==
    lastStep.published => lastStep.active

\* C20 as claimed: once the teardown has run and initialize has finished, no
\* camera stream the service acquired is live.
C20_StreamStoppedAfterTeardown ==
    (~isActive /\ initStep \in {"loadeddata", "done", "failed"}) => stream # "live"

----------------------------------------------------------------------------
(* Properties of a failing gesture service and of the frame callback's reads *)

\* C21: the step on which initialize's catch block reports a resource failure
\* leaves the controller's formation and text, and the refs the frame callback
\* reads them from, as they were; and once the failure is reported a frame
\* tick is still enabled
C21_FailureKeepsFormation ==
    /\ [][InitializeFailed =>
              /\ state'.mode = state.mode /\ state'.text = state.text
              /\ modeRef' = modeRef /\ textRef' = textRef]_vars
    /\ [](initStep = "failed" => ENABLED animate)

\* the failure was reported while a hover gesture held the scene in FOCUS, and
\* a frame has ticked under that formation since
C21_Witness ==
    /\ initStep = "failed"
    /\ lastStep.outcome = "initFailed"
    /\ state.hand = InitFailureSignal
    /\ state.hoverGesture = "PINCH"
    /\ state.mode = "FOCUS"
    /\ previousModeRef = "FOCUS"
    /\ focusedPhotoRef # NullParticle

\* C22: a frame tick is enabled in every state; the (formation, text, hand) a
\* tick reads are the ones the controller published last; and a tick that
\* follows an earlier tick with nothing published in between reads what the
\* earlier tick read
C22_FrameReadsLatestSignal ==
    /\ [](ENABLED FrameSampled)
    /\ [][FrameSampled =>
              /\ sampled'.mode = state.mode
              /\ sampled'.text = state.text
              /\ sampled'.hand = state.hand
              /\ (sampled.run > 0 =>
                      /\ sampled'.mode = sampled.mode
                      /\ sampled'.text = sampled.text
                      /\ sampled'.hand = sampled.hand)]_vars

\* two ticks with nothing published in between have read a pinch at the
\* off-centre position, in FOCUS, while the legend hovers THREE
C22_Witness ==
    /\ sampled.run = 2
    /\ sampled.hand = [gesture |-> "PINCH", position |-> [x |-> 2, y |-> 7]]
    /\ sampled.mode = "FOCUS"
    /\ state.hoverGesture = "THREE"
    /\ previousModeRef = "FOCUS"

----------------------------------------------------------------------------
(* Properties of the text formation *)

\* the particles whose target is a position of the text layout
TextTargeted == {p \in DOMAIN target : target[p].position.rule = "text"}

\* the non-photo particles of the main collection
NonPhoto ==
    {particlesRef[i] : i \in {j \in 1..Len(particlesRef) :
                                  particleType[particlesRef[j]] # "PHOTO"}}

\* C23: the particles a frame gives a text-layout target are never more than
\* floor(0.9 * M), M being the number of non-photo particles, and none of them
\* is a PHOTO particle
C23_TextBudgetRespected ==
    /\ Cardinality(TextTargeted) <= textParticleCount
    /\ \A p \in TextTargeted : particleType[p] # "PHOTO"

\* C24: whenever the text of a call samples at least one pixel, the result
\* holds exactly particleCount positions and, for some order of the sampled
\* pixels, position k is the image of pixel k mod (number of pixels)
C24_LayoutWrapsToCount ==
    layoutCall.called /\ Rasterize(layoutCall.text) # {} =>
        /\ Len(layoutCall.positions) = layoutCall.particleCount
        /\ \E pixels \in Shuffles(Rasterize(layoutCall.text)) :
              \A k \in 0..(layoutCall.particleCount - 1) :
                  layoutCall.positions[k + 1] = pixels[(k % Len(pixels)) + 1]

\* C25: once a frame has run the transition block for TEXT with a text that
\* samples no pixel, the text-layout cache is empty and no particle has a
\* text-layout target
C25_EmptyTextClearsLayout ==
    (/\ modeRef = "TEXT" /\ previousModeRef = "TEXT"
     /\ previousTextRef = textRef
     /\ Rasterize(textRef) = {})
        => (textPositionsRef = <<>> /\ TextTargeted = {})

\* the text of the computation that filled the text-layout cache
LastLaidOutText == IF textPositionsRef = <<>> THEN "" ELSE textPositionsRef[1][1]

\* C26: the text-layout cache changes only on a frame that observes TEXT and
\* on which either TEXT was just entered or the observed text differs from the
\* text of the last computation; no other frame and no other step changes it
C26_LayoutRecomputedOnlyOnChange ==
    [][textPositionsRef' # textPositionsRef =>
          /\ animateFrame
          /\ modeRef = "TEXT"
          /\ (previousModeRef # "TEXT" \/ textRef # LastLaidOutText)]_vars

----------------------------------------------------------------------------
(* Properties of the materials *)

\* C27: after a frame that observes a formation other than TEXT, whether it
\* is the frame on which TEXT is left or a later one, every particle has the
\* material it was constructed with, and none has the highlight material
C27_AppearanceRoundTrip ==
    [][animateFrame /\ modeRef # "TEXT" =>
          \A p \in DOMAIN material' :
              material'[p] = OwnMaterial(p) /\ material'[p] # textMat]_vars

\* TEXT was entered and left: the frames have saved the own material of a
\* particle and the latest frame observed another formation and gave it back
C27_Witness ==
    /\ previousModeRef = "SCATTER"
    /\ modeRef = "SCATTER"
    /\ previousTextRef = textMap["THREE"]
    /\ \A p \in NonPhoto : originalMaterial[p] = OwnMaterial(p)
    /\ \A p \in NonPhoto : material[p] = OwnMaterial(p)
    /\ Len(textPositionsRef) > 0

\* C28: after a frame that observes TEXT, a non-photo particle of the main
\* collection has the highlight material if and only if the frame gave it a
\* text-layout target; every particle without one (excess non-photo or PHOTO)
\* has the drift target and, if non-photo, the material it was constructed with
C28_HighlightIffTextTarget ==
    [][animateFrame /\ modeRef = "TEXT" =>
          \A i \in 1..Len(particlesRef) :
              LET p == particlesRef[i]
                  inText == target'[p].position.rule = "text"
              IN  /\ particleType[p] # "PHOTO" => (material'[p] = textMat <=> inText)
                  /\ particleType[p] = "PHOTO" => ~inText
                  /\ ~inText =>
                        /\ target'[p].position = Pos("drift")
                        /\ particleType[p] # "PHOTO" => material'[p] = OwnMaterial(p)]_vars

\* a TEXT frame has run with a layout shorter than the non-photo particles:
\* one particle is highlighted in the text, another non-photo particle floats
\* with its own material, saved when TEXT was entered
C28_Witness ==
    /\ modeRef = "TEXT" /\ previousModeRef = "TEXT"
    /\ \E p \in NonPhoto : p \in TextTargeted /\ material[p] = textMat
    /\ \E p \in NonPhoto :
          /\ p \notin TextTargeted
          /\ target[p].position = Pos("drift")
          /\ originalMaterial[p] = OwnMaterial(p)
          /\ material[p] = OwnMaterial(p)

----------------------------------------------------------------------------
(* Properties of the drift and of the rotation *)

\* C29: a SCATTER frame whose drift step takes basePosition above
\* boundaryRadius leaves the velocity negated, and the frame that follows,
\* which starts above boundaryRadius, strictly decreases the magnitude of
\* basePosition
C29_BounceTurnsBack ==
    [][FrameDrift /\ modeRef = "SCATTER" =>
          LET b == motion.basePosition
              v == motion.velocity
              above(q) == lengthSq(q) > boundaryRadius * boundaryRadius
          IN  /\ above(add(b, v)) => motion'.velocity = multiplyScalar(v, -1)
              /\ above(b) => lengthSq(motion'.basePosition) < lengthSq(b)]_vars

\* the particle has been above boundaryRadius one frame ago, on a diagonal
\* course, and the frame since then has brought it back inside
C29_Witness ==
    /\ modeRef = "SCATTER"
    /\ motion.velocity.x # 0 /\ motion.velocity.y # 0 /\ motion.velocity.z # 0
    /\ lengthSq(motion.basePosition) <= boundaryRadius * boundaryRadius
    /\ lengthSq(add(motion.basePosition, multiplyScalar(motion.velocity, -1)))
          > boundaryRadius * boundaryRadius

\* the components of a vector or an Euler triple
Axes == {"x", "y", "z"}

----------------------------------------------------------------------------
(* Properties of the spiral cone *)

\* C31: for every total count N > 0 and indices i <= j of 0..N, the spiral-cone
\* position of i is no higher than that of j and no nearer to the axis; the
\* radius is maxRadius at index 0 and 0 at index N
C31_ConeNarrowsUpward ==
    \A a \in 1..Len(treeCall) : \A b \in 1..Len(treeCall) :
        LET ca == treeCall[a]
            cb == treeCall[b]
        IN  /\ (ca.index = 0) => ca.position.radius = maxRadius
            /\ (ca.index = ca.totalCount) => ca.position.radius = 0
            /\ (ca.totalCount = cb.totalCount /\ ca.index <= cb.index)
                   => /\ ca.position.y <= cb.position.y
                      /\ ca.position.radius >= cb.position.radius

\* the cone was computed at its top and strictly below it for one total count
C31_Witness ==
    /\ Len(treeCall) = 2
    /\ treeCall[1].totalCount = treeCall[2].totalCount
    /\ 0 < treeCall[1].index
    /\ treeCall[1].index < treeCall[2].index
    /\ treeCall[2].index = treeCall[2].totalCount
    /\ treeCall[1].position.y < treeCall[2].position.y
    /\ treeCall[1].position.radius > treeCall[2].position.radius

----------------------------------------------------------------------------
(* Properties of the particles' vectors *)

\* the particle p of the main collection drifts on a frame that observes the
\* formation modeRef and leaves the layout textPositions
Drifts(p, textPositions) ==
    /\ \E i \in 1..Len(particlesRef) : particlesRef[i] = p
    /\ \/ modeRef = "SCATTER"
       \/ /\ modeRef = "TEXT"
          /\ \/ particleType[p] = "PHOTO"
             \/ \A i \in 1..Len(particlesRef) :
                    particlesRef[i] = p => i - 1 >= Len(textPositions)

\* C32: a particle's treePosition never changes after its creation; a step
\* changes its basePosition or velocity only if it is a frame on which the
\* particle drifts (every particle in SCATTER, the floating ones in TEXT), and
\* then basePosition has moved by velocity: TREE frames, FOCUS frames, addPhoto
\* and the particles of the text in TEXT leave both as they were
C32_VectorsChangeOnlyByDrift ==
    [][\A p \in DOMAIN kinematics :
          /\ kinematics'[p].treePosition = kinematics[p].treePosition
          /\ IF frames' = frames + 1 /\ Drifts(p, textPositionsRef')
             THEN kinematics'[p].basePosition =
                      add(kinematics[p].basePosition, kinematics[p].velocity)
             ELSE /\ kinematics'[p].basePosition = kinematics[p].basePosition
                  /\ kinematics'[p].velocity = kinematics[p].velocity]_vars

\* a photo was added and frames have run in TREE or FOCUS and then in TEXT,
\* where one ordinary particle is in the text and still where it was created
\* and another one floats and has moved
C32_Witness ==
    /\ frames >= 2
    /\ PhotosAdded > 0
    /\ previousModeRef = "TEXT"
    /\ \E p \in 1..NumMain : \E q \in 1..NumMain :
          /\ target[p].position.rule = "text"
          /\ kinematics[p].basePosition = InitialKinematics(p).basePosition
          /\ target[q].position.rule = "drift"
          /\ kinematics[q].basePosition # InitialKinematics(q).basePosition
    /\ \A p \in DOMAIN kinematics :
          kinematics[p].treePosition = InitialKinematics(p).treePosition

----------------------------------------------------------------------------
(* Properties of the order of the main collection *)

\* C33: in the main collection every non-photo particle comes before every
\* PHOTO particle: the ordinary particles hold the first indices, whatever
\* addPhoto calls have completed, with or without the placeholder's removal
C33_OrdinaryBeforePhotos ==
    /\ \A i \in 1..Len(particlesRef) : \A j \in 1..Len(particlesRef) :
          (particleType[particlesRef[i]] = "PHOTO" /\ i < j)
              => particleType[particlesRef[j]] = "PHOTO"
    /\ \A i \in 1..NumMain :
          i <= Len(particlesRef) /\ particleType[particlesRef[i]] # "PHOTO"

\* the placeholder has been removed and two photos follow the ordinary
\* particles, while a TEXT frame has assigned layout slots by raw index
C33_Witness ==
    /\ defaultPhotoParticleRef = NullParticle
    /\ Len(photoParticlesRef) = 2
    /\ Len(particlesRef) = NumMain + 2
    /\ previousModeRef = "TEXT"
    /\ \E p \in 1..NumMain : target[p].position.rule = "text"

----------------------------------------------------------------------------
(* Properties of the focus selection while FOCUS lasts *)

\* C34 as claimed: on every frame that observes FOCUS while the photo
\* collection is not empty, the FocusSelection is a particle of the main
\* collection and that particle is given the focus point and the focus scale,
\* also when addPhoto has run during FOCUS.
C34_FocusKeptInScene ==
    [][(frames' = frames + 1 /\ modeRef = "FOCUS" /\ photoParticlesRef # <<>>) =>
           \E p \in Range(particlesRef) :
               /\ p = focusedPhotoRef'
               /\ target'[p] = [position |-> Pos("focus"), scale |-> focusScale]]_vars

----------------------------------------------------------------------------
(* Properties of a drifting particle at the boundary *)

\* the position q is farther than boundaryRadius from the origin
Outside(q) == lengthSq(q) > boundaryRadius * boundaryRadius

\* |b| <= boundaryRadius + |v|, decided on integers: with
\* d = |b|^2 - boundaryRadius^2 - |v|^2 the inequality is d <= 2 boundaryRadius |v|,
\* that is d <= 0 or (d / (2 boundaryRadius))^2 <= |v|^2
WithinReach(b, v) ==
    LET d == lengthSq(b) - boundaryRadius * boundaryRadius - lengthSq(v)
        q == d \div (2 * boundaryRadius)
        r == d % (2 * boundaryRadius)
    IN  \/ d <= 0
        \/ /\ q * q <= lengthSq(v)
           /\ 2 * q * r * (2 * boundaryRadius) + r * r
                  <= 4 * boundaryRadius * boundaryRadius * (lengthSq(v) - q * q)

\* C35: a drifting particle that starts inside the boundary sphere is never
\* outside it on two consecutive drift steps (the step after one that ends
\* outside ends inside), its distance from the origin never exceeds
\* boundaryRadius + |velocity|, and its velocity only ever changes by sign
C35_NeverStuckOutside ==
    [][LET b == motion.basePosition
           v == motion.velocity
       IN  /\ (Outside(b) /\ motion'.basePosition # b) => ~Outside(motion'.basePosition)
           /\ WithinReach(motion'.basePosition, motion'.velocity)
           /\ \/ motion'.velocity = v
              \/ motion'.velocity = multiplyScalar(v, -1)]_vars

\* the particle floats in TEXT and is outside the sphere, on a diagonal course
\* that the boundary has reversed
C35_Witness ==
    /\ modeRef = "TEXT" /\ previousModeRef = "TEXT"
    /\ Outside(motion.basePosition)
    /\ motion.velocity = Vec(-2, 5, -3)
    /\ ~Outside(add(motion.basePosition, motion.velocity))

----------------------------------------------------------------------------
(* Properties of the text-layout cache *)

\* C36: a frame that observes TEXT with a non-empty text leaves in the
\* text-layout cache a layout computed from that text, never the layout of an
\* earlier text, however many times the controller changed formation and text
\* since the previous frame
C36_CacheHoldsObservedText ==
    [][(FrameObserved /\ modeRef = "TEXT" /\ textRef # "") =>
           /\ textPositionsRef' \in calculateTextPositions(textRef, textParticleCount)
           /\ \A i \in 1..Len(textPositionsRef') : textPositionsRef'[i][1] = textRef]_vars

\* the latest frame observed TEXT with one text and left its layout in the
\* cache; a particle that this layout has no position for has been part of
\* the longer layout of another text that an earlier frame observed
C36_Witness ==
    /\ observed = [mode |-> "TEXT", text |-> textMap["THREE"]]
    /\ modeRef = "TEXT" /\ textRef = textMap["THREE"]
    /\ previousModeRef = "TEXT" /\ previousTextRef = textMap["THREE"]
    /\ textPositionsRef \in calculateTextPositions(textMap["THREE"], textParticleCount)
    /\ \E p \in NonPhoto :
          /\ p \notin TextTargeted
          /\ originalMaterial[p] = OwnMaterial(p)

----------------------------------------------------------------------------
(* Properties of a run whose frames keep ticking *)

\* C37 as claimed: with frames ticking, a formation that has become FOCUS and
\* stays FOCUS, the photo collection not being empty, eventually has a
\* FocusSelection that is a photo of the collection; a formation that has
\* become TEXT with a non-empty text and stays so eventually has the layout of
\* that text in the cache.
C37_ChangeEventuallyTakesEffect ==
    /\ (state.mode = "FOCUS" /\ photoParticlesRef # <<>>)
           ~> (state.mode # "FOCUS" \/ met.focus)
    /\ \A t \in {textMap["TWO"], textMap["THREE"]} :
           (state.mode = "TEXT" /\ state.text = t)
               ~> (~(state.mode = "TEXT" /\ state.text = t) \/ met.text)

----------------------------------------------------------------------------
(* Properties of two runs that differ in hand positions *)

\* C38: of two runs that differ only in the hand positions published while the
\* formation is TEXT or FOCUS, both have the same formation and text in every
\* state, so that the particle loop, which reads the formation, the text and
\* the scene but not the hand, gives the same particle targets in both; a
\* frame that observes TEXT or FOCUS sets the target rotation of the particle
\* group to 0 on both axes in both runs; the target rotations of the two runs
\* differ only after a frame that observed TREE or SCATTER
C38_HandIgnoredInTextAndFocus ==
    /\ twin.modeRef = modeRef /\ twin.textRef = textRef
    /\ (twin.framed /\ previousModeRef \in {"TEXT", "FOCUS"})
           => /\ twin.rotation = [y |-> 0, x |-> 0]
              /\ twin.twinRotation = [y |-> 0, x |-> 0]
    /\ (twin.rotation # twin.twinRotation) => previousModeRef \in {"TREE", "SCATTER"}

\* a frame has observed TEXT while the two runs hold different hand positions,
\* neither of them the origin
C38_Witness ==
    /\ twin.framed
    /\ previousModeRef = "TEXT" /\ modeRef = "TEXT"
    /\ twin.handRef.position # handRef.position
    /\ handRef.position.x # 0 /\ twin.handRef.position.x # 0
    /\ twin.rotation = twin.twinRotation

----------------------------------------------------------------------------
(* Properties of the two controllers *)

\* C39: with no hover gesture ever supplied, the hover-aware controller and
\* the camera-only controller, started in the same state and given the same
\* sequence of camera signals, produce the same sequence of (formation, text)
C39_ControllersAgreeWithoutHover ==
    /\ state.hoverGesture = NullGesture
    /\ Len(events) = Len(fed)
    /\ \A i \in 1..Len(events) : events[i].hoverAware = events[i].cameraOnly
    /\ <<camState.mode, camState.text>> = <<state.mode, state.text>>

\* the same gesture was published twice in a row, the second time at another
\* position, after a gesture with a text: the hover-aware controller mapped
\* the gesture again, the camera-only controller did not, and both kept the
\* text through the PINCH
C39_Witness ==
    /\ Len(fed) = 3
    /\ fed[1].gesture = "TWO"
    /\ fed[2].gesture = "PINCH" /\ fed[3].gesture = "PINCH"
    /\ fed[2].position # fed[3].position
    /\ events[3].hoverAware = <<"FOCUS", textMap["TWO"]>>
    /\ events[3].cameraOnly = <<"FOCUS", textMap["TWO"]>>

----------------------------------------------------------------------------
(* Properties of the saved materials *)

\* C40: the saved original material of a particle is never the shared
\* highlight material: it is the particle's own material, saved once and never
\* overwritten; no PHOTO particle ever has a saved material or carries the
\* highlight material, whatever TEXT entries, text changes, exits and addPhoto
\* calls have happened
C40_SavedMaterialIsOwn ==
    [][\A p \in DOMAIN material' :
          /\ originalMaterial'[p] # textMat
          /\ originalMaterial'[p] \in {NoMaterial, OwnMaterial(p)}
          /\ (p \in DOMAIN material /\ originalMaterial[p] # NoMaterial)
                 => originalMaterial'[p] = originalMaterial[p]
          /\ particleType'[p] = "PHOTO"
                 => (originalMaterial'[p] = NoMaterial /\ material'[p] = OwnMaterial(p))]_vars

\* TEXT was entered, its text changed to a shorter one and a photo was added:
\* one particle is highlighted a second time with its saved material intact,
\* another has been taken out of the text, and the photos have no saved material
C40_Witness ==
    /\ modeRef = "TEXT" /\ previousModeRef = "TEXT"
    /\ previousTextRef = textMap["THREE"]
    /\ PhotosAdded > 0
    /\ \E p \in NonPhoto :
          /\ p \in TextTargeted
          /\ material[p] = textMat /\ originalMaterial[p] = OwnMaterial(p)
    /\ \E q \in NonPhoto :
          /\ q \notin TextTargeted
          /\ material[q] = OwnMaterial(q) /\ originalMaterial[q] = OwnMaterial(q)
    /\ \A p \in Range(photoParticlesRef) :
          originalMaterial[p] = NoMaterial /\ material[p] = OwnMaterial(p)

============================================================================
